---- MODULE Spec2Model ----
(***************************************************************************)
(* Voice bridge: the call registries of the telephony router and of the    *)
(* Twilio and Exotel adapters, with their asyncio handlers cut at every    *)
(* await, and one VocodeStreamingServer session with its stage tasks.      *)
(*                                                                         *)
(* asyncio runs one coroutine at a time and switches only at an await, so  *)
(* each action below is the code between two consecutive awaits of one     *)
(* handler.  A handler that is suspended at an await is a record of the    *)
(* set tasks; its pc names the await it is suspended at.                   *)
(***************************************************************************)
EXTENDS Integers, Sequences, FiniteSets, TLC

VARIABLES
    router_active,   \* TelephonyRouter.active_calls : call id -> provider
    twilio_active,   \* TwilioAdapter.active_calls   : call id -> call record
    exotel_active,   \* ExotelAdapter.active_calls   : call id -> call record
    tasks,           \* handler invocations suspended at an await
    nextInv,         \* number the next handler invocation gets
    cost_reports,    \* report_call_cost requests issued, per session
    terminations,    \* conversation.terminate() calls, per session
    last,            \* the handler invocation the last step finished, and how
    \* one VocodeStreamingServer session
    is_running,
    start_pc,        \* where start() is: new, config, gather, returned
    start_time,
    business_config, \* its "maxCallDuration", in ms
    now,             \* time.time(), in ms
    recv_pc,         \* _audio_receive_loop: idle, start, receive, done
    recv_events,     \* frame messages (or bursts) received
    audio_buffer,    \* number of chunks in self.audio_buffer
    speaking_buffer, \* the chunks in it, each named by its arrival number
    is_speaking,
    last_speech_time,
    trans_pc,        \* _transcription_loop: idle, start, sleep, done
    trans_wake,      \* when its sleep is over
    utterances,      \* the buffers handed to transcription, in order
    recent_transcriptions,
    msg_tasks,       \* _process_user_message tasks suspended at an await
    conversation_history,
    synthesis_queue,
    enqueued,        \* every text put on synthesis_queue, in order
    synth_pc,        \* _synthesis_loop: idle, start, get, tts, stream, done
    audio_data,      \* what the last synthesize() returned: audio, or None
    wd_pc,           \* _conversation_timeout_checker: idle, start, sleep, farewell,
                     \* done, caught (left through its except clause)
    wd_wake,         \* when its sleep is over
    \* one inbound call on its way in
    phone_number,    \* the caller number, a sequence of characters
    business_id,
    prov_pc,         \* get_provider_for_call: idle, called, fetch, returned
    resolved_provider, \* what get_provider_for_call returned
    req_for,         \* the endpoint _request is asking, none, or done
    attempt,         \* the loop variable of _request
    result,          \* what _request returns
    ctx_pc,          \* VocodeNativeServer.start: idle, new, fetch, conversation
    context,         \* self.context
    \* one audio on its way out: _stream_audio or ExotelOutputDevice.play
    out_path,        \* which of the two sends it, or none
    out_pc,          \* idle, called, sleep (a chunk is sent), returned
    out_audio,       \* len(audio_data), in bytes
    out_i,           \* the loop variable i, the offset of the chunk sent
    out_active,      \* ExotelOutputDevice._is_active
    out_clock,       \* time since the call of the sender, in ms
    \* calls arriving with or without an id
    wall_clock,      \* time.time(), in ms
    arrived,         \* the calls that arrived, in order: adapter, call_sid, pc
    stream_calls,    \* ExotelAdapter.active_calls: call_sid -> the arrival stored
    voice_calls,     \* SimpleExotelAdapter.active_calls, likewise
    \* the codec at work on one byte or one sample
    codec_pc,        \* idle, decode, decoded, raised, encode, encoded, round_trip
    int16_wraps,     \* whether the numpy in use wraps integers beyond int16
    mulaw_in,        \* the byte given to _mulaw_to_pcm
    sample,          \* the sample: decoded, or given to _pcm_to_mulaw
    mulaw_out,       \* the byte _pcm_to_mulaw returned
    \* one call of NodeAPIClient._request, attempt by attempt
    rq_pc,           \* idle, attempt (in the try block), sleep, returned, raised
    rq_method,       \* the argument method
    rq_attempt,      \* the loop variable attempt
    rq_responses,    \* what the HTTP requests made so far came back with, in order
    rq_wait,         \* the seconds given to the asyncio.sleep in progress
    rq_result,       \* what _request returned
    \* one VocodeNativeServer: start() and the calls of stop()
    ns_pc,           \* start(): new, ctx, record, starting, loop, returned, raised
    ns_is_running,   \* VocodeNativeServer.is_running
    ns_conversation, \* VocodeNativeServer.conversation: None or the object built
    ns_started,      \* whether conversation.start() has run
    ns_terminated,   \* whether the conversation was terminated
    ns_chunks,       \* chunks handed to conversation.receive_audio
    ns_stop_pc,      \* stop(): none, terminating, returned, raised
    ns_stop_at,      \* where start() was at each call of stop(), in order
    ns_reports,      \* report_call_cost tasks created by stop()
    \* the application's lifespan
    shutdown_pc,     \* serving, cleanup (the loop over the router's calls), complete
    shutdown_keys    \* list(telephony_router.active_calls.keys()) still to visit

rvars == <<router_active, twilio_active, exotel_active, tasks, nextInv,
           cost_reports, terminations, last>>

vars == <<router_active, twilio_active, exotel_active, tasks, nextInv,
          cost_reports, terminations, last,
          is_running, start_pc, start_time, business_config, now,
          recv_pc, recv_events, audio_buffer, speaking_buffer, is_speaking,
          last_speech_time, trans_pc, trans_wake, utterances,
          recent_transcriptions, msg_tasks, conversation_history,
          synthesis_queue, enqueued, synth_pc, audio_data, wd_pc, wd_wake,
          phone_number, business_id, prov_pc, resolved_provider, req_for, attempt,
          result, ctx_pc, context,
          out_path, out_pc, out_audio, out_i, out_active, out_clock,
          wall_clock, arrived, stream_calls, voice_calls,
          codec_pc, int16_wraps, mulaw_in, sample, mulaw_out,
          rq_pc, rq_method, rq_attempt, rq_responses, rq_wait, rq_result,
          ns_pc, ns_is_running, ns_conversation, ns_started, ns_terminated, ns_chunks, ns_stop_pc, ns_stop_at, ns_reports,
          shutdown_pc, shutdown_keys>>

-----------------------------------------------------------------------------
(* Bounds of the model *)

\* handler invocations (webhooks, websocket connections, router calls) in a run
MaxInvocations == 3
\* frames an Exotel input device queues before the model stops feeding it
MaxQueued == 1

(* Program constants *)

\* settings.MAX_CONCURRENT_CALLS: Field(default=10, ge=1, le=100), read from
\* the environment; the model runs the service configured with 2.
MAX_CONCURRENT_CALLS == 2

CallIds == {"c1", "c2", "c3"}
NoCall == "none"

\* class TelephonyProvider
TWILIO == "twilio"
EXOTEL == "exotel"
TelephonyProvider == {TWILIO, EXOTEL}

\* What the backend's full-context reply can be: a well-formed context (the
\* loaded one, or the default get_full_context returns when every attempt
\* failed), or a 200 reply whose "business"/"customer" is not an object, on
\* which create_agent_config raises AttributeError.
ContextShapes == {"loaded", "default", "malformed"}

-----------------------------------------------------------------------------
(* dict operations *)

\* d[k] = v
Put(d, k, v) == [x \in (DOMAIN d) \cup {k} |-> IF x = k THEN v ELSE d[x]]

\* del d[k], for k in d
Del(d, k) == [x \in (DOMAIN d) \ {k} |-> d[x]]

EmptyDict == [x \in {} |-> 0]

\* count[s] += 1
Bump(count, s) == [count EXCEPT ![s] = @ + 1]

-----------------------------------------------------------------------------
(* handler invocations *)

Task(n, kind, via, call, pc, sess) ==
    [n |-> n, kind |-> kind, via |-> via, call |-> call, pc |-> pc, sess |-> sess]

\* outcome: "returned", or the exception the handler raised; registered:
\* whether the call was in the handler's own registry when it was invoked
NoneDone == [n |-> 0, op |-> "none", call |-> NoCall, outcome |-> "none",
             registered |-> FALSE]

Done(n, op, call, outcome, registered) ==
    [n |-> n, op |-> op, call |-> call, outcome |-> outcome,
     registered |-> registered]

\* the name the finished handler goes by: the router's when the adapter's
\* handler ran inside the router's
OpName(t) ==
    IF t.via = "router"
    THEN (IF t.kind = "tw_inbound" THEN "router_inbound" ELSE "router_end")
    ELSE t.kind

CanInvoke == nextInv <= MaxInvocations

-----------------------------------------------------------------------------
(* TwilioAdapter *)

\* the record handle_inbound_call stores; its start_time, context and
\* transcript are those of the invocation n that stored it
TwilioRecord(n) == [session |-> n]

\* a handler that lost its guard and goes on for any call id
NotRegisteredNever(registry, c) == FALSE

\* `if call_sid not in self.active_calls: return`
NotRegistered(registry, c) == c \notin DOMAIN registry

\* TwilioAdapter.handle_inbound_call up to `await get_full_context`;
\* TelephonyRouter.handle_inbound_call records the call before it calls in.
TwilioInbound(c, via) ==
    /\ CanInvoke
    /\ router_active' = IF via = "router" THEN Put(router_active, c, TWILIO)
                        ELSE router_active
    /\ tasks' = tasks \cup {Task(nextInv, "tw_inbound", via, c, "ctx", nextInv)}
    /\ nextInv' = nextInv + 1
    /\ last' = NoneDone
    /\ UNCHANGED <<twilio_active, exotel_active, cost_reports, terminations>>

\* the context arrived: create_agent_config, then the record is stored and
\* create_voice_conversation awaited
TwilioInboundContext(t, ctx) ==
    /\ t \in tasks /\ t.kind = "tw_inbound" /\ t.pc = "ctx"
    /\ IF ctx = "malformed"
       THEN /\ tasks' = tasks \ {t}
            /\ last' = Done(t.n, OpName(t), t.call, "AttributeError", FALSE)
            /\ UNCHANGED twilio_active
       ELSE /\ twilio_active' = Put(twilio_active, t.call, TwilioRecord(t.n))
            /\ tasks' = (tasks \ {t}) \cup {[t EXCEPT !.pc = "conv"]}
            /\ last' = NoneDone
    /\ UNCHANGED <<router_active, exotel_active, nextInv, cost_reports, terminations>>

\* create_voice_conversation answered (it never raises): the handler returns
TwilioInboundDone(t) ==
    /\ t \in tasks /\ t.kind = "tw_inbound" /\ t.pc = "conv"
    /\ tasks' = tasks \ {t}
    /\ last' = Done(t.n, OpName(t), t.call, "returned", FALSE)
    /\ UNCHANGED <<router_active, twilio_active, exotel_active, nextInv,
                   cost_reports, terminations>>

\* TwilioAdapter.handle_call_end on a 'completed' status notification, up to
\* `await report_call_cost`
TwilioCallEnd(c) ==
    /\ CanInvoke
    /\ nextInv' = nextInv + 1
    /\ IF NotRegistered(twilio_active, c)
       THEN /\ last' = Done(nextInv, "tw_end", c, "returned", FALSE)
            /\ UNCHANGED <<tasks, cost_reports>>
       ELSE IF c \in DOMAIN twilio_active
       THEN /\ cost_reports' = Bump(cost_reports, twilio_active[c].session)
            /\ tasks' = tasks \cup {Task(nextInv, "tw_end", "webhook", c, "report",
                                         twilio_active[c].session)}
            /\ last' = NoneDone
       ELSE \* call_data = self.active_calls[call_sid] raises KeyError
            /\ last' = Done(nextInv, "tw_end", c, "KeyError", FALSE)
            /\ UNCHANGED <<tasks, cost_reports>>
    /\ UNCHANGED <<router_active, twilio_active, exotel_active, terminations>>

\* an end of call whose cleanup empties the adapter's table
TwilioCallEndResumeClear(t) ==
    /\ t \in tasks /\ t.kind = "tw_end" /\ t.pc = "report"
    /\ twilio_active' = IF t.call \in DOMAIN twilio_active
                        THEN EmptyDict ELSE twilio_active
    /\ tasks' = tasks \ {t}
    /\ IF t.via = "router"
       THEN IF t.call \in DOMAIN router_active
            THEN /\ router_active' = Del(router_active, t.call)
                 /\ last' = Done(t.n, "router_end", t.call, "returned", TRUE)
            ELSE /\ last' = Done(t.n, "router_end", t.call, "KeyError", TRUE)
                 /\ UNCHANGED router_active
       ELSE /\ last' = Done(t.n, "tw_end", t.call, "returned", TRUE)
            /\ UNCHANGED router_active
    /\ UNCHANGED <<exotel_active, nextInv, cost_reports, terminations>>

\* report_call_cost answered or raised (the except clause logs either way; the
\* stored transcript is always empty, so save_transcript is not called); the
\* finally clause deletes the entry if it is still there.  Inside the router,
\* `del self.active_calls[call_sid]` follows.
TwilioCallEndResume(t) ==
    /\ t \in tasks /\ t.kind = "tw_end" /\ t.pc = "report"
    /\ twilio_active' = IF t.call \in DOMAIN twilio_active
                        THEN Del(twilio_active, t.call) ELSE twilio_active
    /\ tasks' = tasks \ {t}
    /\ IF t.via = "router"
       THEN IF t.call \in DOMAIN router_active
            THEN /\ router_active' = Del(router_active, t.call)
                 /\ last' = Done(t.n, "router_end", t.call, "returned", TRUE)
            ELSE \* KeyError
                 /\ last' = Done(t.n, "router_end", t.call, "KeyError", TRUE)
                 /\ UNCHANGED router_active
       ELSE /\ last' = Done(t.n, "tw_end", t.call, "returned", TRUE)
            /\ UNCHANGED router_active
    /\ UNCHANGED <<exotel_active, nextInv, cost_reports, terminations>>

\* a failed call that is charged like a completed one before its entry goes
TwilioStatusFailedCharged(c) ==
    /\ CanInvoke
    /\ nextInv' = nextInv + 1
    /\ twilio_active' = IF c \in DOMAIN twilio_active
                        THEN Del(twilio_active, c) ELSE twilio_active
    /\ cost_reports' = IF c \in DOMAIN twilio_active
                       THEN Bump(cost_reports, twilio_active[c].session)
                       ELSE cost_reports
    /\ last' = Done(nextInv, "tw_status_failed", c, "returned",
                    c \in DOMAIN twilio_active)
    /\ UNCHANGED <<router_active, exotel_active, tasks, terminations>>

\* twilio_status with failed, busy, no-answer or canceled
TwilioStatusFailed(c) ==
    /\ CanInvoke
    /\ nextInv' = nextInv + 1
    /\ twilio_active' = IF c \in DOMAIN twilio_active
                        THEN Del(twilio_active, c) ELSE twilio_active
    /\ last' = Done(nextInv, "tw_status_failed", c, "returned",
                    c \in DOMAIN twilio_active)
    /\ UNCHANGED <<router_active, exotel_active, tasks, cost_reports, terminations>>

\* settings.TWILIO_AUTH_TOKEN: Field(default=""), read from the environment;
\* the model runs the service with the token configured.
TWILIO_AUTH_TOKEN_SET == TRUE

\* validate_twilio_signature: `if not settings.TWILIO_AUTH_TOKEN: return True`,
\* else validator.validate(url, params, signature); signed says whether the
\* request carries the signature Twilio computes for it
TwilioSignatureOk(signed) ==
    IF ~TWILIO_AUTH_TOKEN_SET THEN TRUE ELSE signed

\* raise HTTPException(status_code=403)
TwilioRejected(c) ==
    /\ CanInvoke
    /\ nextInv' = nextInv + 1
    /\ last' = Done(nextInv, "tw_rejected", c, "HTTP403", FALSE)
    /\ UNCHANGED <<router_active, twilio_active, exotel_active, tasks,
                   cost_reports, terminations>>

\* POST /twilio/inbound
TwilioInboundRoute(c, signed) ==
    IF TwilioSignatureOk(signed)
      THEN TwilioInbound(c, "webhook")
      ELSE TwilioRejected(c)

\* the CallStatus values on which twilio_status acts
TwilioStatuses == {"completed", "failed"}

\* POST /twilio/status
TwilioStatusRoute(c, status, signed) ==
    IF ~TwilioSignatureOk(signed)
      THEN TwilioRejected(c)
    ELSE IF status = "completed"
      THEN TwilioCallEnd(c)
      ELSE TwilioStatusFailed(c)

-----------------------------------------------------------------------------
(* ExotelAdapter *)

\* media payloads: strings of at most MaxPayloadLen characters, of a character
\* of the base64 alphabet, the pad and a character outside the alphabet
MaxPayloadLen == 4
BASE64_PAD == "="
Base64Alphabet == {"A"}
PayloadChars == Base64Alphabet \cup {BASE64_PAD, "!"}
Payloads == UNION {[1..n -> PayloadChars] : n \in 0..MaxPayloadLen}

\* the payload of a frame of audio, well formed
AudioPayload == <<"A", "A", "A", "A">>

\* b64decode raised binascii.Error
Raised == -1

\* text frames that carry no start, media or stop event
TextFrames == {"not_json", "not_object", "mark"}

\* the record start_conversation stores: the conversation and the devices
\* created for it (session names them), and the frames its input device queued
ExotelRecord(s) == [session |-> s, queued |-> 0]

\* ExotelAdapter.end_call(c) up to `await conversation.terminate()`, entered
\* by invocation n of handler kind; rest are the other suspended handlers
EndCallBegin(n, kind, c, rest) ==
    IF NotRegistered(exotel_active, c)
    THEN /\ tasks' = rest
         /\ last' = Done(n, kind, c, "returned", FALSE)
         /\ UNCHANGED terminations
    ELSE IF c \in DOMAIN exotel_active
    THEN /\ terminations' = Bump(terminations, exotel_active[c].session)
         /\ tasks' = rest \cup {Task(n, kind, "webhook", c, "terminating",
                                     exotel_active[c].session)}
         /\ last' = NoneDone
    ELSE \* call_data = self.active_calls[call_sid] raises KeyError
         /\ tasks' = rest
         /\ last' = Done(n, kind, c, "KeyError", FALSE)
         /\ UNCHANGED terminations

\* terminate() returned or raised.  When it returned the devices of the ended
\* conversation are stopped and report_call_cost is started as a task; when
\* it raised the except clause logs.  The finally clause deletes whatever
\* entry the call id has now.
ExotelEndCallResume(t, terminated) ==
    /\ t \in tasks /\ t.pc = "terminating"
    /\ cost_reports' = IF terminated THEN Bump(cost_reports, t.sess) ELSE cost_reports
    /\ exotel_active' = IF t.call \in DOMAIN exotel_active
                        THEN Del(exotel_active, t.call) ELSE exotel_active
    /\ tasks' = tasks \ {t}
    /\ last' = Done(t.n, t.kind, t.call, "returned", TRUE)
    /\ UNCHANGED <<router_active, twilio_active, nextInv, terminations>>

\* exotel_status with completed, no-answer, busy or failed
ExotelStatus(c) ==
    /\ CanInvoke
    /\ nextInv' = nextInv + 1
    /\ EndCallBegin(nextInv, "ex_status", c, tasks)
    /\ UNCHANGED <<router_active, twilio_active, exotel_active, cost_reports>>

\* exotel_stream: the websocket is accepted, call_sid = None
ExotelStreamConnect ==
    /\ CanInvoke
    /\ nextInv' = nextInv + 1
    /\ tasks' = tasks \cup {Task(nextInv, "ex_stream", "webhook", NoCall, "recv", 0)}
    /\ last' = NoneDone
    /\ UNCHANGED <<router_active, twilio_active, exotel_active, cost_reports, terminations>>

\* POST /exotel/status: the handler reads CallSid and Status from the form
\* and never looks at a signature
ExotelStatusRoute(c, signed) == ExotelStatus(c)

\* WebSocket /exotel/stream: accepted whatever the request carries
ExotelStreamRoute(signed) == ExotelStreamConnect

\* a 'start' event naming call c: call_sid = c, start_conversation is entered
\* and awaits get_full_context
ExotelStreamStart(t, c) ==
    /\ t \in tasks /\ t.kind = "ex_stream" /\ t.pc = "recv"
    /\ CanInvoke
    /\ nextInv' = nextInv + 1
    /\ tasks' = (tasks \ {t}) \cup
                {[t EXCEPT !.call = c, !.pc = "ctx", !.sess = nextInv]}
    /\ last' = NoneDone
    /\ UNCHANGED <<router_active, twilio_active, exotel_active, cost_reports, terminations>>

\* the context arrived: devices and conversation are built (on a malformed
\* context _create_agent_config raises, and the handler's finally clause ends
\* the call), the record is stored, create_voice_conversation awaited
ExotelStartContext(t, ctx) ==
    /\ t \in tasks /\ t.kind = "ex_stream" /\ t.pc = "ctx"
    /\ IF ctx = "malformed"
       THEN /\ EndCallBegin(t.n, "ex_stream", t.call, tasks \ {t})
            /\ UNCHANGED exotel_active
       ELSE /\ exotel_active' = Put(exotel_active, t.call, ExotelRecord(t.sess))
            /\ tasks' = (tasks \ {t}) \cup {[t EXCEPT !.pc = "conv"]}
            /\ last' = NoneDone
            /\ UNCHANGED terminations
    /\ UNCHANGED <<router_active, twilio_active, nextInv, cost_reports>>

\* create_voice_conversation answered: `await conversation.start()`
ExotelStartRecorded(t) ==
    /\ t \in tasks /\ t.kind = "ex_stream" /\ t.pc = "conv"
    /\ tasks' = (tasks \ {t}) \cup {[t EXCEPT !.pc = "starting"]}
    /\ last' = NoneDone
    /\ UNCHANGED <<router_active, twilio_active, exotel_active, nextInv, cost_reports, terminations>>

\* conversation.start() returned, and the handler receives again, or raised,
\* and the handler's finally clause ends the call
ExotelStartStarted(t, started) ==
    /\ t \in tasks /\ t.kind = "ex_stream" /\ t.pc = "starting"
    /\ IF started
       THEN /\ tasks' = (tasks \ {t}) \cup {[t EXCEPT !.pc = "recv"]}
            /\ last' = NoneDone
            /\ UNCHANGED terminations
       ELSE EndCallBegin(t.n, "ex_stream", t.call, tasks \ {t})
    /\ UNCHANGED <<router_active, twilio_active, exotel_active, nextInv,
                   cost_reports>>

\* base64.b64decode(s) as binascii.a2b_base64 computes it when validate is
\* off: characters outside the alphabet are passed over, a pad sequence that
\* completes a quad ends the input, and data that ends inside a quad raises.
\* s[i..] is still to read; the value is the number of bytes decoded, or Raised
RECURSIVE a2b_base64(_, _, _, _, _)
a2b_base64(s, i, quad_pos, pads, bytes) ==
    IF i > Len(s)
      THEN IF quad_pos # 0 THEN Raised ELSE bytes
    ELSE IF s[i] = BASE64_PAD
      THEN IF quad_pos >= 2 /\ quad_pos + pads + 1 >= 4
             THEN bytes
             ELSE a2b_base64(s, i + 1, quad_pos,
                             IF quad_pos >= 2 THEN pads + 1 ELSE pads, bytes)
    ELSE IF s[i] \notin Base64Alphabet
      THEN a2b_base64(s, i + 1, quad_pos, pads, bytes)
    ELSE a2b_base64(s, i + 1, (quad_pos + 1) % 4, 0,
                    IF quad_pos = 0 THEN bytes ELSE bytes + 1)

b64decode(s) == a2b_base64(s, 1, 0, 0, 0)

\* a 'media' event with a payload: process_audio hands it to receive_audio of
\* the input device of the entry the call id has now, which decodes it and
\* queues the bytes, or logs what b64decode raised.  An empty payload is
\* passed over
ExotelStreamMedia(t, payload) ==
    /\ t \in tasks /\ t.kind = "ex_stream" /\ t.pc = "recv"
    /\ t.call # NoCall
    /\ t.call \in DOMAIN exotel_active
    /\ IF payload = <<>> \/ b64decode(payload) = Raised
         THEN UNCHANGED exotel_active
         ELSE /\ exotel_active[t.call].queued < MaxQueued
              /\ exotel_active' = [exotel_active EXCEPT ![t.call].queued = @ + 1]
    /\ last' = NoneDone
    /\ UNCHANGED <<router_active, twilio_active, tasks, nextInv, cost_reports, terminations>>

\* a text frame that is no start, media or stop event: a text json.loads
\* rejects is passed over (JSONDecodeError), and so is a 'mark' event; a JSON
\* text that is no object has no get(), the AttributeError leaves the loop and
\* the finally clause ends the call, if one was named
ExotelStreamText(t, text) ==
    /\ t \in tasks /\ t.kind = "ex_stream" /\ t.pc = "recv"
    /\ IF text \in {"not_json", "mark"}
       THEN /\ last' = NoneDone
            /\ UNCHANGED <<tasks, terminations>>
       ELSE IF t.call = NoCall
       THEN /\ tasks' = tasks \ {t}
            /\ last' = Done(t.n, "ex_stream", NoCall, "returned", FALSE)
            /\ UNCHANGED terminations
       ELSE EndCallBegin(t.n, "ex_stream", t.call, tasks \ {t})
    /\ UNCHANGED <<router_active, twilio_active, exotel_active, nextInv,
                   cost_reports>>

\* a 'stop' event, a disconnect or a receive error: the loop is left and the
\* finally clause ends the call, if one was named
ExotelStreamClose(t) ==
    /\ t \in tasks /\ t.kind = "ex_stream" /\ t.pc = "recv"
    /\ IF t.call = NoCall
       THEN /\ tasks' = tasks \ {t}
            /\ last' = Done(t.n, "ex_stream", NoCall, "returned", FALSE)
            /\ UNCHANGED terminations
       ELSE EndCallBegin(t.n, "ex_stream", t.call, tasks \ {t})
    /\ UNCHANGED <<router_active, twilio_active, exotel_active, nextInv,
                   cost_reports>>

-----------------------------------------------------------------------------
(* TelephonyRouter *)

\* handle_inbound_call: the call is recorded, then the adapter is called.
\* ExotelAdapter defines no handle_inbound_call, so for Exotel the call
\* raises AttributeError.
RouterHandleInboundCall(c, provider) ==
    IF provider = EXOTEL
    THEN /\ CanInvoke
         /\ nextInv' = nextInv + 1
         /\ router_active' = Put(router_active, c, EXOTEL)
         /\ last' = Done(nextInv, "router_inbound", c, "AttributeError", FALSE)
         /\ UNCHANGED <<twilio_active, exotel_active, tasks, cost_reports,
                        terminations>>
    ELSE TwilioInbound(c, "router")

\* handle_call_end: up to the await inside the adapter's handle_call_end.
\* ExotelAdapter defines no handle_call_end, so for an Exotel call the call
\* raises AttributeError.  TwilioAdapter.handle_call_end returns at once for
\* a call it does not hold, and the router deletes its entry.
RouterHandleCallEnd(c) ==
    /\ CanInvoke
    /\ nextInv' = nextInv + 1
    /\ IF NotRegistered(router_active, c)
       THEN /\ last' = Done(nextInv, "router_end", c, "returned", FALSE)
            /\ UNCHANGED <<router_active, tasks, cost_reports>>
       ELSE IF c \notin DOMAIN router_active \/ router_active[c] = EXOTEL
       THEN \* KeyError, AttributeError
            /\ last' = Done(nextInv, "router_end", c,
                            IF c \in DOMAIN router_active
                            THEN "AttributeError" ELSE "KeyError",
                            c \in DOMAIN router_active)
            /\ UNCHANGED <<router_active, tasks, cost_reports>>
       ELSE IF NotRegistered(twilio_active, c)
       THEN /\ router_active' = Del(router_active, c)
            /\ last' = Done(nextInv, "router_end", c, "returned", TRUE)
            /\ UNCHANGED <<tasks, cost_reports>>
       ELSE IF c \in DOMAIN twilio_active
       THEN /\ cost_reports' = Bump(cost_reports, twilio_active[c].session)
            /\ tasks' = tasks \cup {Task(nextInv, "tw_end", "router", c, "report",
                                         twilio_active[c].session)}
            /\ last' = NoneDone
            /\ UNCHANGED router_active
       ELSE \* KeyError inside the adapter
            /\ last' = Done(nextInv, "router_end", c, "KeyError", TRUE)
            /\ UNCHANGED <<router_active, tasks, cost_reports>>
    /\ UNCHANGED <<twilio_active, exotel_active, terminations>>

-----------------------------------------------------------------------------
(* One VocodeStreamingServer session.  Times are in milliseconds. *)

\* frame messages (or bursts of them) the transport delivers in a run
MaxReceives == 2
\* the transcription loop's 100 ms timer is followed up to this time; after
\* it the loop wakes when the clock reaches a timer of the timeout checker
MaxPollTime == 600
\* the clock is not advanced past this time
MaxTime == 8100

\* self.chunk_duration_ms = 20
chunk_duration_ms == 20
\* self.silence_threshold = 0.5 (seconds)
silence_threshold == 500
\* min_audio_duration = 0.5 (seconds)
min_audio_duration == 500
\* await asyncio.sleep(0.1) of the transcription loop
poll_sleep == 100
\* await asyncio.sleep(5) of the timeout checker
checker_sleep == 5000
\* await asyncio.sleep(3) after the farewell
farewell_sleep == 3000
\* inactivity_timeout = 60 (seconds)
inactivity_timeout == 60000
\* business_config.get("maxCallDuration", 600) (seconds)
default_max_duration == 600000
\* deque(maxlen=5)
recent_maxlen == 5

\* a "maxCallDuration" that is no number (JSON null, or a string)
NullDuration == -1

\* "maxCallDuration" of the business configuration the backend returns: a
\* business that caps its calls at 5 s, the default, or no number
ConfiguredDurations == {5000, default_max_duration, NullDuration}

\* Frame messages that are already buffered by the transport are received
\* back to back: websocket.receive() does not suspend while a message is
\* waiting, so the receive loop takes the whole burst in one step.
Bursts == {1, 24, 25}

\* what transcription_model.transcribe does with an utterance
STTOutcomes == {"text", "silence", "error"}
\* what process_voice_message brings back: a reply, nothing, or a value on
\* which response.get raises
BackendReplies == {"reply", "none", "malformed"}

\* self.last_speech_time = 0, self.start_time = None
None == "None"

NoTime == 0
\* self.business_config = None
NoConfig == 0

Text(kind, utt) == [kind |-> kind, utt |-> utt]
WELCOME == Text("welcome", 0)
STT_APOLOGY == Text("stt_apology", 0)
FAREWELL == Text("farewell", 0)
STILL_THERE == Text("still_there", 0)

Turn(role, utt) == [role |-> role, utt |-> utt]

startv == <<start_pc, start_time, business_config>>
recvv == <<recv_pc, recv_events, audio_buffer>>
speechv == <<speaking_buffer, is_speaking, last_speech_time>>
transv == <<trans_pc, trans_wake, utterances, recent_transcriptions>>
msgv == <<msg_tasks, conversation_history>>
queuev == <<synthesis_queue, enqueued>>
wdv == <<wd_pc, wd_wake>>

svars == <<is_running, now, startv, recvv, speechv, transv, msgv, queuev,
           synth_pc, audio_data, wdv>>

\* await self.synthesis_queue.put(text): the queue is unbounded, the put
\* never suspends
QueuePut(text) ==
    /\ synthesis_queue' = Append(synthesis_queue, text)
    /\ enqueued' = Append(enqueued, text)

\* deque(maxlen).append
DequeAppend(d, x) ==
    IF Len(d) < recent_maxlen THEN Append(d, x) ELSE Append(Tail(d), x)

(* start() and stop() *)

SessionStart ==
    /\ start_pc = "new"
    /\ is_running' = TRUE
    /\ start_time' = now
    /\ start_pc' = "config"
    /\ UNCHANGED <<business_config, now, recvv, speechv, transv, msgv, queuev,
                   synth_pc, audio_data, wdv>>

\* the business configuration arrives; the Whisper model loads or fails; the
\* first text is queued and, if the model loaded, the four stage tasks are
\* created
SessionConfigured(cfg, whisper_ok) ==
    /\ start_pc = "config"
    /\ business_config' = cfg
    /\ IF whisper_ok
         THEN /\ QueuePut(WELCOME)
              /\ start_pc' = "gather"
              /\ recv_pc' = "start"
              /\ trans_pc' = "start"
              /\ synth_pc' = "start"
              /\ wd_pc' = "start"
         ELSE /\ QueuePut(STT_APOLOGY)
              /\ start_pc' = "returned"
              /\ UNCHANGED <<recv_pc, trans_pc, synth_pc, wd_pc>>
    /\ UNCHANGED <<is_running, now, start_time, recv_events, audio_buffer,
                   speechv, trans_wake, utterances, recent_transcriptions,
                   msgv, audio_data, wd_wake>>

\* asyncio.gather returns when the four tasks have finished
SessionGathered ==
    /\ start_pc = "gather"
    /\ recv_pc = "done" /\ trans_pc = "done" /\ synth_pc = "done"
    /\ wd_pc \in {"done", "caught"}
    /\ start_pc' = "returned"
    /\ UNCHANGED <<is_running, now, start_time, business_config, recvv, speechv,
                   transv, msgv, queuev, synth_pc, audio_data, wdv>>

Stop ==
    /\ start_pc # "new"
    /\ is_running' = FALSE
    /\ UNCHANGED <<now, startv, recvv, speechv, transv, msgv, queuev, synth_pc, audio_data, wdv>>

(* _audio_receive_loop *)

\* the first run of the task: up to its first await
RecvBegin ==
    /\ recv_pc = "start"
    /\ recv_pc' = IF is_running THEN "receive" ELSE "done"

\* a receive loop that keeps only the latest burst in speaking_buffer
RecvFramesReplace(k) ==
    /\ recv_pc = "receive"
    /\ recv_events < MaxReceives
    /\ LET n == IF is_running THEN k ELSE 1
       IN  /\ audio_buffer' = audio_buffer + n
           /\ speaking_buffer' = [i \in 1..n |-> audio_buffer + i]
    /\ last_speech_time' = now
    /\ is_speaking' = TRUE
    /\ recv_events' = recv_events + 1
    /\ recv_pc' = IF is_running THEN "receive" ELSE "done"
    /\ UNCHANGED <<is_running, now, startv, transv, msgv, queuev, synth_pc, audio_data, wdv>>

\* a burst of k frame messages; the loop looks at is_running before each
\* receive, so a loop that was already waiting takes one more frame after
\* is_running has become False
RecvFrames(k) ==
    /\ recv_pc = "receive"
    /\ recv_events < MaxReceives
    /\ LET n == IF is_running THEN k ELSE 1
       IN  /\ audio_buffer' = audio_buffer + n
           /\ speaking_buffer' = speaking_buffer \o [i \in 1..n |-> audio_buffer + i]
    /\ last_speech_time' = now
    /\ is_speaking' = TRUE
    /\ recv_events' = recv_events + 1
    /\ recv_pc' = IF is_running THEN "receive" ELSE "done"
    /\ UNCHANGED <<is_running, now, startv, transv, msgv, queuev, synth_pc, audio_data, wdv>>

\* a message without "bytes" (a text frame)
RecvIgnored ==
    /\ recv_pc = "receive"
    /\ recv_pc' = IF is_running THEN "receive" ELSE "done"
    /\ UNCHANGED <<is_running, now, startv, recv_events, audio_buffer, speechv,
                   transv, msgv, queuev, synth_pc, audio_data, wdv>>

\* websocket.disconnect, or receive() raises
RecvDisconnect ==
    /\ recv_pc = "receive"
    /\ recv_pc' = "done"
    /\ is_running' = FALSE
    /\ UNCHANGED <<now, startv, recv_events, audio_buffer, speechv, transv, msgv,
                   queuev, synth_pc, audio_data, wdv>>

(* _transcription_loop *)

ShouldEmitAnySilence(chunks, silence) ==
    chunks * chunk_duration_ms >= min_audio_duration

ShouldEmitAnyLength(chunks, silence) ==
    silence >= silence_threshold

\* audio_duration >= min_audio_duration and silence_duration >= self.silence_threshold
ShouldEmit(chunks, silence) ==
    /\ chunks * chunk_duration_ms >= min_audio_duration
    /\ silence >= silence_threshold

\* the first run of the task: up to its first await
TransBegin ==
    /\ trans_pc = "start"
    /\ IF is_running
         THEN trans_pc' = "sleep" /\ trans_wake' = now + poll_sleep
         ELSE trans_pc' = "done" /\ UNCHANGED trans_wake

\* a poll whose transcription error is not caught inside the loop: the
\* loop is left and the call closed
TransPollFatal(stt) ==
    /\ trans_pc = "sleep"
    /\ now >= trans_wake
    /\ IF speaking_buffer # <<>>
          /\ ShouldEmit(Len(speaking_buffer), now - last_speech_time)
         THEN /\ utterances' = Append(utterances, speaking_buffer)
              /\ speaking_buffer' = <<>>
              /\ is_speaking' = FALSE
              /\ IF stt = "text"
                   THEN /\ recent_transcriptions' =
                               DequeAppend(recent_transcriptions, Len(utterances'))
                        /\ msg_tasks' = msg_tasks \cup
                               {[utt |-> Len(utterances'), pc |-> "log_user"]}
                        /\ conversation_history' =
                               Append(conversation_history, Turn("user", Len(utterances')))
                   ELSE UNCHANGED <<recent_transcriptions, msgv>>
              /\ IF stt = "error"
                   THEN /\ is_running' = FALSE
                        /\ trans_pc' = "done" /\ UNCHANGED trans_wake
                   ELSE /\ UNCHANGED is_running
                        /\ IF is_running
                             THEN trans_pc' = "sleep" /\ trans_wake' = now + poll_sleep
                             ELSE trans_pc' = "done" /\ UNCHANGED trans_wake
         ELSE /\ UNCHANGED <<utterances, speaking_buffer, is_speaking,
                             recent_transcriptions, msgv, is_running>>
              /\ IF is_running
                   THEN trans_pc' = "sleep" /\ trans_wake' = now + poll_sleep
                   ELSE trans_pc' = "done" /\ UNCHANGED trans_wake
    /\ UNCHANGED <<now, startv, recvv, last_speech_time, queuev, synth_pc, audio_data, wdv>>

\* one poll: from waking up to the next sleep (or to the end of the loop).
\* transcribe() is a blocking call, so the utterance is transcribed and the
\* _process_user_message task is created within the poll; the task runs up
\* to its first await before anything else can touch conversation_history.
TransPoll(stt) ==
    /\ trans_pc = "sleep"
    /\ now >= trans_wake
    /\ IF speaking_buffer # <<>>
          /\ ShouldEmit(Len(speaking_buffer), now - last_speech_time)
         THEN /\ utterances' = Append(utterances, speaking_buffer)
              /\ speaking_buffer' = <<>>
              /\ is_speaking' = FALSE
              /\ IF stt = "text"
                   THEN /\ recent_transcriptions' =
                               DequeAppend(recent_transcriptions, Len(utterances'))
                        /\ msg_tasks' = msg_tasks \cup
                               {[utt |-> Len(utterances'), pc |-> "log_user"]}
                        /\ conversation_history' =
                               Append(conversation_history, Turn("user", Len(utterances')))
                   ELSE UNCHANGED <<recent_transcriptions, msgv>>
         ELSE UNCHANGED <<utterances, speaking_buffer, is_speaking,
                          recent_transcriptions, msgv>>
    /\ IF is_running
         THEN trans_pc' = "sleep" /\ trans_wake' = now + poll_sleep
         ELSE trans_pc' = "done" /\ UNCHANGED trans_wake
    /\ UNCHANGED <<is_running, now, startv, recvv, last_speech_time, queuev,
                   synth_pc, audio_data, wdv>>

(* _process_user_message *)

\* log_conversation_event("user_message") is back; process_voice_message is sent
MsgLogged(m) ==
    /\ m.pc = "log_user"
    /\ msg_tasks' = (msg_tasks \ {m}) \cup {[m EXCEPT !.pc = "ai"]}
    /\ UNCHANGED <<is_running, now, startv, recvv, speechv, transv,
                   conversation_history, queuev, synth_pc, audio_data, wdv>>

\* the reply is queued as soon as it arrives, and again once it is logged
MsgResponseEarlyPut(m, resp) ==
    /\ m.pc = "ai"
    /\ IF resp = "reply"
         THEN /\ conversation_history' =
                     Append(conversation_history, Turn("assistant", m.utt))
              /\ msg_tasks' = (msg_tasks \ {m}) \cup {[m EXCEPT !.pc = "log_ai"]}
              /\ QueuePut(Text("reply", m.utt))
         ELSE /\ QueuePut(Text(IF resp = "none" THEN "rephrase" ELSE "trouble", m.utt))
              /\ msg_tasks' = msg_tasks \ {m}
              /\ UNCHANGED conversation_history
    /\ UNCHANGED <<is_running, now, startv, recvv, speechv, transv, synth_pc, audio_data, wdv>>

MsgResponse(m, resp) ==
    /\ m.pc = "ai"
    /\ IF resp = "reply"
         THEN /\ conversation_history' =
                     Append(conversation_history, Turn("assistant", m.utt))
              /\ msg_tasks' = (msg_tasks \ {m}) \cup {[m EXCEPT !.pc = "log_ai"]}
              /\ UNCHANGED queuev
         ELSE /\ QueuePut(Text(IF resp = "none" THEN "rephrase" ELSE "trouble", m.utt))
              /\ msg_tasks' = msg_tasks \ {m}
              /\ UNCHANGED conversation_history
    /\ UNCHANGED <<is_running, now, startv, recvv, speechv, transv, synth_pc, audio_data, wdv>>

\* log_conversation_event("ai_response") is back; the reply is queued
MsgReplyLogged(m) ==
    /\ m.pc = "log_ai"
    /\ QueuePut(Text("reply", m.utt))
    /\ msg_tasks' = msg_tasks \ {m}
    /\ UNCHANGED <<is_running, now, startv, recvv, speechv, transv,
                   conversation_history, synth_pc, audio_data, wdv>>

(* _synthesis_loop *)

\* top of the loop: leave when is_running is False; otherwise get() takes
\* the head of the queue at once if there is one, and suspends if not
SynthLoop ==
    IF ~is_running
      THEN synth_pc' = "done" /\ UNCHANGED queuev
      ELSE IF synthesis_queue # <<>>
             THEN /\ synth_pc' = "tts"
                  /\ synthesis_queue' = Tail(synthesis_queue)
                  /\ UNCHANGED enqueued
             ELSE synth_pc' = "get" /\ UNCHANGED queuev

\* the first run of the task: up to its first await
SynthBegin ==
    /\ synth_pc = "start"
    /\ SynthLoop

\* a put wakes the suspended get(), whatever is_running is by now
SynthGet ==
    /\ synth_pc = "get"
    /\ synthesis_queue # <<>>
    /\ synth_pc' = "tts"
    /\ synthesis_queue' = Tail(synthesis_queue)
    /\ UNCHANGED <<is_running, now, startv, recvv, speechv, transv, msgv,
                   enqueued, audio_data, wdv>>

\* a synthesis loop that a failed synthesis would end
SynthSynthesizedFatal(audio) ==
    /\ synth_pc = "tts"
    /\ audio_data' = IF audio THEN "audio" ELSE None
    /\ synth_pc' = IF audio THEN "stream" ELSE "done"
    /\ UNCHANGED queuev
    /\ UNCHANGED <<is_running, now, startv, recvv, speechv, transv, msgv, wdv>>

\* tts_service.synthesize is back, with audio or without
SynthSynthesized(audio) ==
    /\ synth_pc = "tts"
    /\ audio_data' = IF audio THEN "audio" ELSE None
    /\ IF audio
         THEN synth_pc' = "stream" /\ UNCHANGED queuev
         ELSE SynthLoop
    /\ UNCHANGED <<is_running, now, startv, recvv, speechv, transv, msgv, wdv>>

\* _stream_audio is over (all chunks sent, or a send raised)
SynthStreamed ==
    /\ synth_pc = "stream"
    /\ SynthLoop
    /\ UNCHANGED <<is_running, now, startv, recvv, speechv, transv, msgv,
                   audio_data, wdv>>

(* _conversation_timeout_checker *)

\* the first run of the task: up to its first await
WdBegin ==
    /\ wd_pc = "start"
    /\ IF is_running
         THEN wd_pc' = "sleep" /\ wd_wake' = now + checker_sleep
         ELSE wd_pc' = "done" /\ UNCHANGED wd_wake

WdCheck ==
    /\ wd_pc = "sleep"
    /\ now >= wd_wake
    /\ LET max_duration == business_config
           duration == now - start_time
           last_activity == IF last_speech_time # NoTime
                              THEN now - last_speech_time ELSE 0
       IN  IF max_duration = NullDuration
             THEN \* duration >= max_duration raises TypeError, the loop is
                  \* left through `except Exception`, which logs
                  /\ wd_pc' = "caught"
                  /\ UNCHANGED <<wd_wake, queuev>>
           ELSE IF duration >= max_duration
             THEN /\ QueuePut(FAREWELL)
                  /\ wd_pc' = "farewell"
                  /\ wd_wake' = now + farewell_sleep
             ELSE /\ IF last_activity >= inactivity_timeout /\ ~is_speaking
                       THEN QueuePut(STILL_THERE)
                       ELSE UNCHANGED queuev
                  /\ IF is_running
                       THEN wd_pc' = "sleep" /\ wd_wake' = now + checker_sleep
                       ELSE wd_pc' = "done" /\ UNCHANGED wd_wake
    /\ UNCHANGED <<is_running, now, startv, recvv, speechv, transv, msgv, synth_pc, audio_data>>

WdFarewellDone ==
    /\ wd_pc = "farewell"
    /\ now >= wd_wake
    /\ is_running' = FALSE
    /\ wd_pc' = "done"
    /\ UNCHANGED <<now, startv, recvv, speechv, transv, msgv, queuev, synth_pc, audio_data,
                   wd_wake>>

(* the tasks start *)

\* create_task puts the four tasks on the event loop's ready queue one after
\* the other and start() suspends in gather: the loop then runs each task up
\* to its first await, in the order of their creation, before it looks at
\* any completed I/O or timer.  Only a callback that was ready before (a
\* stop()) runs ahead of them.
StagesBegin ==
    /\ RecvBegin
    /\ TransBegin
    /\ SynthBegin
    /\ WdBegin
    /\ UNCHANGED <<is_running, now, startv, recv_events, audio_buffer, speechv,
                   utterances, recent_transcriptions, msgv, audio_data>>

(* the clock *)

\* the timers that are running
Timers ==
    (IF trans_pc = "sleep" /\ trans_wake <= MaxPollTime THEN {trans_wake} ELSE {})
    \cup (IF wd_pc \in {"sleep", "farewell"} /\ wd_wake <= MaxTime THEN {wd_wake} ELSE {})

\* time passes until a running timer is due (a sleep lasts at least its
\* delay: the sleeper need not run at once)
Tick(t) ==
    /\ t > now
    /\ now' = t
    /\ UNCHANGED <<is_running, startv, recvv, speechv, transv, msgv, queuev,
                   synth_pc, audio_data, wdv>>

SessionInit ==
    /\ is_running = FALSE
    /\ now = poll_sleep
    /\ start_pc = "new"
    /\ start_time = NoTime
    /\ business_config = NoConfig
    /\ recv_pc = "idle"
    /\ recv_events = 0
    /\ audio_buffer = 0
    /\ speaking_buffer = <<>>
    /\ is_speaking = FALSE
    /\ last_speech_time = NoTime
    /\ trans_pc = "idle"
    /\ trans_wake = NoTime
    /\ utterances = <<>>
    /\ recent_transcriptions = <<>>
    /\ msg_tasks = {}
    /\ conversation_history = <<>>
    /\ synthesis_queue = <<>>
    /\ enqueued = <<>>
    /\ synth_pc = "idle"
    /\ audio_data = None
    /\ wd_pc = "idle"
    /\ wd_wake = NoTime

-----------------------------------------------------------------------------
(* TelephonyRouter.get_provider_for_call, NodeAPIClient._request and the
   context load of VocodeNativeServer.start, for one inbound call *)

\* characters of the caller numbers the model draws
MaxNumberLen == 4

PhoneChars == {"+", "9", "1", "4", " ", "-"}

\* a caller number is the sequence of its characters; the empty sequence is
\* the empty string (or None)
PhoneNumbers == UNION {[1..n -> PhoneChars] : n \in 0..MaxNumberLen}

NoBusiness == "none"
BusinessIds == {"biz1", NoBusiness}

\* settings.NODE_API_RETRY_ATTEMPTS: Field(default=3, ge=1, le=10)
retry_attempts == 3

\* what one attempt of _request can meet, other than a 200 with a JSON body
AttemptFailures == {"429", "error_status", "timeout", "exception"}

\* JSON bodies of a 200 from /api/agent/business-config: a configuration
\* whose voiceProvider is the given name, one without the field, the empty
\* object, and a body that is no object
BusinessBodies == {"twilio", "exotel", "plivo", "no_provider", "empty", "not_a_dict"}

\* JSON bodies of a 200 from /api/agent/full-context: a context with its own
\* welcomeMessage, one without the field, and the empty object
ContextBodies == {"loaded", "bare", "empty"}

DEFAULT_WELCOME == "Hello! How can I help you today?"
CUSTOM_WELCOME == "custom"

admv == <<phone_number, business_id, prov_pc, resolved_provider, req_for, attempt,
          result, ctx_pc, context>>

\* str.startswith
StartsWith(s, prefix) ==
    /\ Len(s) >= Len(prefix)
    /\ SubSeq(s, 1, Len(prefix)) = prefix

\* str.replace(ch, "")
Remove(s, ch) == SelectSeq(s, LAMBDA x : x # ch)

\* a number that is not cleaned before its prefix is looked at
detect_region_uncleaned(number) ==
    IF number = <<>> THEN "default"
    ELSE IF StartsWith(number, <<"+", "9", "1">>) \/ StartsWith(number, <<"9", "1">>)
           THEN "IN"
    ELSE IF StartsWith(number, <<"+", "1">>) THEN "US"
    ELSE IF StartsWith(number, <<"+", "4", "4">>) THEN "GB"
    ELSE IF \/ StartsWith(number, <<"+", "4", "9">>)
            \/ StartsWith(number, <<"+", "3", "3">>)
            \/ StartsWith(number, <<"+", "3", "9">>) THEN "EU"
    ELSE "default"

\* TelephonyRouter.detect_region_from_number
detect_region_from_number(phone_number_) ==
    IF phone_number_ = <<>> THEN "default"
    ELSE LET number == Remove(Remove(phone_number_, " "), "-")
         IN  IF StartsWith(number, <<"+", "9", "1">>) \/ StartsWith(number, <<"9", "1">>)
               THEN "IN"
             ELSE IF StartsWith(number, <<"+", "1">>) THEN "US"
             ELSE IF StartsWith(number, <<"+", "4", "4">>) THEN "GB"
             ELSE IF \/ StartsWith(number, <<"+", "4", "9">>)
                     \/ StartsWith(number, <<"+", "3", "3">>)
                     \/ StartsWith(number, <<"+", "3", "9">>) THEN "EU"
             ELSE "default"

\* TelephonyRouter.REGION_DEFAULTS.get(region, REGION_DEFAULTS["default"])
REGION_DEFAULTS(region) ==
    IF region = "IN" THEN EXOTEL ELSE TWILIO

RegionDefault(number) == REGION_DEFAULTS(detect_region_from_number(number))

\* NodeAPIClient.get_business_config: `if not result:` gives the default
\* configuration, which names no resolved_provider
get_business_config(res) ==
    IF res \in {None, "empty"} THEN "no_provider" ELSE res

\* the result of _request is handed on as it is
get_full_context_unguarded(res) == res

\* NodeAPIClient.get_full_context: `if result: return result`, else the
\* minimal default context
get_full_context(res) ==
    IF res \in {None, "empty"} THEN "default" ELSE res

\* context.get("welcomeMessage", "Hello! How can I help you today?"); the
\* default context carries the same text
WelcomeMessage(ctx) ==
    IF ctx = "loaded" THEN CUSTOM_WELCOME ELSE DEFAULT_WELCOME

\* get_provider_for_call up to `await get_business_config`, or to its return
\* when no business id is given
GetProviderForCall ==
    /\ prov_pc = "called"
    /\ IF business_id # NoBusiness
         THEN /\ prov_pc' = "fetch"
              /\ req_for' = "business-config"
              /\ attempt' = 0
              /\ result' = None
              /\ UNCHANGED resolved_provider
         ELSE /\ prov_pc' = "returned"
              /\ resolved_provider' = RegionDefault(phone_number)
              /\ UNCHANGED <<req_for, attempt, result>>
    /\ UNCHANGED <<phone_number, business_id, ctx_pc, context>>

Bodies == IF req_for = "business-config" THEN BusinessBodies ELSE ContextBodies

\* one attempt of _request answers 200: return response.json()
RequestAnswered(body) ==
    /\ req_for \in {"business-config", "full-context"}
    /\ attempt < retry_attempts
    /\ body \in Bodies
    /\ result' = body
    /\ req_for' = "done"
    /\ UNCHANGED <<phone_number, business_id, prov_pc, resolved_provider, attempt,
                   ctx_pc, context>>

\* one attempt of _request fails: the status or the exception is logged,
\* the loop sleeps and goes on; after the last attempt `return None`
RequestFailed(failure) ==
    /\ req_for \in {"business-config", "full-context"}
    /\ attempt < retry_attempts
    /\ attempt' = attempt + 1
    /\ req_for' = IF attempt + 1 < retry_attempts THEN req_for ELSE "done"
    /\ UNCHANGED <<phone_number, business_id, prov_pc, resolved_provider, result,
                   ctx_pc, context>>

\* whatever name the configuration carries is returned as the provider
ProviderFetchedUnchecked ==
    /\ prov_pc = "fetch"
    /\ req_for = "done"
    /\ LET configured_provider == get_business_config(result)
       IN  resolved_provider' = IF configured_provider \notin {"no_provider", "not_a_dict"}
                                  THEN configured_provider
                                  ELSE RegionDefault(phone_number)
    /\ prov_pc' = "returned"
    /\ req_for' = "none"
    /\ UNCHANGED <<phone_number, business_id, attempt, result, ctx_pc, context>>

\* get_business_config is back: business_config.get("voiceProvider") raises
\* on a body that is no object, TelephonyProvider(name) raises on a name
\* that is no resolved_provider, both inside the try; then the region default
ProviderFetched ==
    /\ prov_pc = "fetch"
    /\ req_for = "done"
    /\ LET configured_provider == get_business_config(result)
       IN  resolved_provider' = IF configured_provider \in TelephonyProvider
                         THEN configured_provider
                         ELSE RegionDefault(phone_number)
    /\ prov_pc' = "returned"
    /\ req_for' = "none"
    /\ UNCHANGED <<phone_number, business_id, attempt, result, ctx_pc, context>>

\* VocodeNativeServer.start up to `await get_full_context`
ContextRequested ==
    /\ prov_pc = "returned"
    /\ ctx_pc = "new"
    /\ ctx_pc' = "fetch"
    /\ req_for' = "full-context"
    /\ attempt' = 0
    /\ result' = None
    /\ UNCHANGED <<phone_number, business_id, prov_pc, resolved_provider, context>>

\* get_full_context is back; the conversation is built with the context's
\* welcome message and started
ContextLoaded ==
    /\ ctx_pc = "fetch"
    /\ req_for = "done"
    /\ context' = get_full_context(result)
    /\ ctx_pc' = "conversation"
    /\ req_for' = "none"
    /\ UNCHANGED <<phone_number, business_id, prov_pc, resolved_provider, attempt, result>>

\* no call is being admitted
AdmissionIdle ==
    /\ phone_number = <<>>
    /\ business_id = NoBusiness
    /\ prov_pc = "idle"
    /\ resolved_provider = None
    /\ req_for = "none"
    /\ attempt = 0
    /\ result = None
    /\ ctx_pc = "idle"
    /\ context = None

\* a call from any caller number, with or without a business id
AdmissionInit ==
    /\ phone_number \in PhoneNumbers
    /\ business_id \in BusinessIds
    /\ prov_pc = "called"
    /\ resolved_provider = None
    /\ req_for = "none"
    /\ attempt = 0
    /\ result = None
    /\ ctx_pc = "new"
    /\ context = None

-----------------------------------------------------------------------------
(* The senders of outbound audio: VocodeStreamingServer._stream_audio and   *)
(* ExotelOutputDevice.play, for one audio                                    *)

\* the longest audio sent, in bytes
MaxAudioBytes == 3400

AudioLengths == 0..MaxAudioBytes

\* settings.AUDIO_CHUNK_SIZE, the chunk of _stream_audio, and its sleep in ms
AUDIO_CHUNK_SIZE == 160
stream_sleep == 20

\* the chunk of ExotelOutputDevice.play and its sleep in ms
play_chunk_size == 3200
play_sleep == 80

\* bytes one second of audio takes: mu-law at settings.AUDIO_SAMPLE_RATE, one
\* byte a sample, and 16-bit PCM at the device's sampling_rate
AUDIO_SAMPLE_RATE == 8000
play_sampling_rate == 16000
MulawBytesPerSecond == AUDIO_SAMPLE_RATE * 1
PcmBytesPerSecond == play_sampling_rate * 2

egv == <<out_path, out_pc, out_audio, out_i, out_active, out_clock>>

ChunkSize(path) == IF path = "stream_audio" THEN AUDIO_CHUNK_SIZE ELSE play_chunk_size

ChunkSleep(path) == IF path = "stream_audio" THEN stream_sleep ELSE play_sleep

BytesPerSecond(path) ==
    IF path = "stream_audio" THEN MulawBytesPerSecond ELSE PcmBytesPerSecond

\* len(audio[i:i + chunk_size])
ChunkLen(audio, i, chunk_size) ==
    IF i + chunk_size <= audio THEN chunk_size ELSE audio - i

\* `for i in range(0, len(audio), chunk_size)`: the next chunk is sent and the
\* sender sleeps, or the range is exhausted and the sender returns.  play
\* leaves the loop when the device was stopped
OutLoop(i) ==
    IF i >= out_audio \/ (out_path = "play" /\ ~out_active)
      THEN /\ out_pc' = "returned"
           /\ UNCHANGED out_i
      ELSE /\ out_pc' = "sleep"
           /\ out_i' = i

\* the sender is called: play returns at once for a stopped device or an
\* empty audio; otherwise the first chunk goes out
OutBegin ==
    /\ out_pc = "called"
    /\ OutLoop(0)
    /\ UNCHANGED <<out_path, out_audio, out_active, out_clock>>

\* send_bytes or send_json of the chunk at i returned and the sleep after it
\* is over, or the send raised and the except clause logs
OutChunkSent(sent) ==
    /\ out_pc = "sleep"
    /\ IF sent
         THEN /\ out_clock' = out_clock + ChunkSleep(out_path)
              /\ OutLoop(out_i + ChunkSize(out_path))
         ELSE /\ out_pc' = "returned"
              /\ UNCHANGED <<out_i, out_clock>>
    /\ UNCHANGED <<out_path, out_audio, out_active>>

\* ExotelOutputDevice.stop, from end_call
OutStop ==
    /\ out_path = "play"
    /\ out_active
    /\ out_active' = FALSE
    /\ UNCHANGED <<out_path, out_pc, out_audio, out_i, out_clock>>

EgressIdle ==
    /\ out_path = "none"
    /\ out_pc = "idle"
    /\ out_audio = 0
    /\ out_i = 0
    /\ out_active = TRUE
    /\ out_clock = 0

EgressInit ==
    /\ out_path \in {"stream_audio", "play"}
    /\ out_pc = "called"
    /\ out_audio \in AudioLengths
    /\ out_i = 0
    /\ out_active = TRUE
    /\ out_clock = 0

-----------------------------------------------------------------------------
(* Call ids: the 'start' event of exotel_stream and the exotel_voice webhook *)
(* of SimpleExotelAdapter, for calls that arrive with or without an id      *)

\* calls that arrive in a run
MaxArrivals == 3
\* time.time() is followed up to MaxClock ms, in steps of TickMs
MaxClock == 2000
TickMs == 500

\* ids a provider assigns, and the empty or missing callSid
NoSid == 0
ProviderSids == {1, 2}

idv == <<wall_clock, arrived, stream_calls, voice_calls>>

\* int(time.time())
ClockSecond == wall_clock \div 1000

\* start_data.get("callSid") or start_data.get("streamSid") or
\* f"exotel_{int(time.time())}"; streamSid stands for the second name the
\* webhook reads, "callSid"
CallSidOf(prefix, callSid, streamSid) ==
    IF callSid # NoSid THEN [src |-> "provider", n |-> callSid]
    ELSE IF streamSid # NoSid THEN [src |-> "provider", n |-> streamSid]
    ELSE [src |-> prefix, n |-> ClockSecond]

\* a 'start' event on a stream: call_sid is fixed, start_conversation is
\* entered and awaits get_full_context
StreamStartEvent(callSid, streamSid) ==
    /\ Len(arrived) < MaxArrivals
    /\ arrived' = Append(arrived, [adapter |-> "stream", pc |-> "ctx",
                                   call_sid |-> CallSidOf("exotel", callSid, streamSid)])
    /\ UNCHANGED <<wall_clock, stream_calls, voice_calls>>

\* the context of arrival n is back: self.active_calls[call_sid] = {...}
StreamStartStored(n) ==
    /\ n \in 1..Len(arrived)
    /\ arrived[n].pc = "ctx"
    /\ stream_calls' = Put(stream_calls, arrived[n].call_sid, n)
    /\ arrived' = [arrived EXCEPT ![n].pc = "stored"]
    /\ UNCHANGED <<wall_clock, voice_calls>>

\* exotel_voice: call_sid is fixed and the call is stored
VoiceWebhook(CallSid, callSid) ==
    /\ Len(arrived) < MaxArrivals
    /\ arrived' = Append(arrived, [adapter |-> "voice", pc |-> "stored",
                                   call_sid |-> CallSidOf("call", CallSid, callSid)])
    /\ voice_calls' = Put(voice_calls, CallSidOf("call", CallSid, callSid),
                          Len(arrived) + 1)
    /\ UNCHANGED <<wall_clock, stream_calls>>

\* time passes
ClockTick ==
    /\ wall_clock + TickMs <= MaxClock
    /\ wall_clock' = wall_clock + TickMs
    /\ UNCHANGED <<arrived, stream_calls, voice_calls>>

IdsInit ==
    /\ wall_clock = 0
    /\ arrived = <<>>
    /\ stream_calls = EmptyDict
    /\ voice_calls = EmptyDict

-----------------------------------------------------------------------------
(* The codec: VocodeStreamingServer._mulaw_to_pcm and _pcm_to_mulaw, for   *)
(* one byte and for one sample                                               *)

MULAW_BIAS == 33
MULAW_MAX == 8191
MULAW_MASK == 15

Bytes == 0..255
Int16 == -32768..32767

\* the literals of mulaw_table, from index 0
MulawTableLiterals ==
    <<0, 132, 396, 924, 1980, 4092, 8316, 16764,
      48, 144, 432, 1008, 2160, 4464, 9072, 18336,
      72, 168, 504, 1176, 2520, 5208, 10584, 21384,
      120, 216, 600, 1320, 2760, 5640, 11448, 23064,
      168, 264, 696, 1464, 3000, 6120, 12360, 24840,
      240, 336, 840, 1800, 3720, 7560, 15336, 30840,
      360, 456, 1080, 2232, 4584, 9256, 18696, 37512,
      552, 696, 1560, 3168, 6504, 13128, 26376, 52776>>

\* a Python integer stored as np.int16 by a numpy that wraps
WrapInt16(x) == ((x + 32768) % 65536) - 32768

codv == <<codec_pc, int16_wraps, mulaw_in, sample, mulaw_out>>

rqv == <<rq_pc, rq_method, rq_attempt, rq_responses, rq_wait, rq_result>>

nsv == <<ns_pc, ns_is_running, ns_conversation, ns_started, ns_terminated, ns_chunks, ns_stop_pc, ns_stop_at, ns_reports>>

lfv == <<shutdown_pc, shutdown_keys>>

scenv == <<egv, idv, codv, rqv, nsv, lfv>>

\* np.array([...], dtype=np.int16): two literals are beyond int16; a numpy
\* that wraps stores them wrapped, a numpy that checks raises OverflowError.
\* Then mulaw_table[b]: the table has 64 entries, a larger b raises IndexError
MulawToPcmRaises(b) ==
    \/ ~int16_wraps
    \/ b + 1 > Len(MulawTableLiterals)

mulaw_to_pcm(b) == WrapInt16(MulawTableLiterals[b + 1])

Abs(x) == IF x < 0 THEN -x ELSE x

\* np.clip(pcm_array, -MULAW_MAX, MULAW_MAX)
Clip(x) == IF x < -MULAW_MAX THEN -MULAW_MAX ELSE IF x > MULAW_MAX THEN MULAW_MAX ELSE x

\* magnitude = abs(sample) + MULAW_BIAS, clipped to MULAW_MAX
Magnitude(s) ==
    LET m == Abs(Clip(s)) + MULAW_BIAS
    IN  IF m > MULAW_MAX THEN MULAW_MAX ELSE m

Chord(magnitude) ==
    IF magnitude < 128 THEN 0
    ELSE IF magnitude < 256 THEN 1
    ELSE IF magnitude < 512 THEN 2
    ELSE IF magnitude < 1024 THEN 3
    ELSE IF magnitude < 2048 THEN 4
    ELSE IF magnitude < 4096 THEN 5
    ELSE IF magnitude < 8192 THEN 6
    ELSE 7

\* (magnitude >> (chord + 3)) & MULAW_MASK
Step(magnitude) == (magnitude \div (2 ^ (Chord(magnitude) + 3))) % (MULAW_MASK + 1)

Sign(s) == IF Clip(s) < 0 THEN 128 ELSE 0

\* an encoder that clips neither the sample nor the biased magnitude
pcm_to_mulaw_unclipped(s) ==
    255 - ((IF s < 0 THEN 128 ELSE 0)
           + Chord(Abs(s) + MULAW_BIAS) * 16 + Step(Abs(s) + MULAW_BIAS))

\* ~(sign | (chord << 4) | step) & 0xFF: the three fields share no bit
pcm_to_mulaw(s) ==
    255 - (Sign(s) + Chord(Magnitude(s)) * 16 + Step(Magnitude(s)))

\* _mulaw_to_pcm of the one byte mulaw_in
MulawToPcm ==
    /\ codec_pc = "decode"
    /\ IF MulawToPcmRaises(mulaw_in)
         THEN codec_pc' = "raised" /\ UNCHANGED sample
         ELSE codec_pc' = "decoded" /\ sample' = mulaw_to_pcm(mulaw_in)
    /\ UNCHANGED <<int16_wraps, mulaw_in, mulaw_out>>

\* _pcm_to_mulaw of the one sample: a sample given as input, or the one
\* _mulaw_to_pcm returned
PcmToMulaw ==
    /\ codec_pc \in {"encode", "decoded"}
    /\ mulaw_out' = pcm_to_mulaw(sample)
    /\ codec_pc' = IF codec_pc = "encode" THEN "encoded" ELSE "round_trip"
    /\ UNCHANGED <<int16_wraps, mulaw_in, sample>>

CodecIdle ==
    /\ codec_pc = "idle"
    /\ int16_wraps = TRUE
    /\ mulaw_in = 0
    /\ sample = 0
    /\ mulaw_out = 0

CodecInit ==
    /\ codec_pc \in {"decode", "encode"}
    /\ int16_wraps \in IF codec_pc = "decode" THEN BOOLEAN ELSE {TRUE}
    /\ mulaw_in \in IF codec_pc = "decode" THEN Bytes ELSE {0}
    /\ sample \in IF codec_pc = "encode" THEN Int16 ELSE {0}
    /\ mulaw_out = 0

-----------------------------------------------------------------------------
(* NodeAPIClient._request, attempt by attempt *)

\* the argument method; DELETE stands for every method _request does not know
Methods == {"GET", "POST", "PUT", "DELETE"}

SupportedMethods == {"GET", "POST", "PUT"}

\* what one HTTP request comes back with: status 200 with a JSON object, with
\* the JSON null or with a body that is no JSON; status 429; another status;
\* httpx.TimeoutException; another exception of the transport
Responses ==
    {"200_object", "200_null", "200_malformed", "429", "error_status",
     "timeout", "exception"}

Status200 == {"200_object", "200_null", "200_malformed"}

Body == "body"

\* response.json() raises a JSONDecodeError on a body that is no JSON
JsonRaises(response) == response = "200_malformed"

\* response.json() otherwise: the object, or None for the JSON null
response_json(response) == IF response = "200_object" THEN Body ELSE None

\* 2**attempt
Pow2(n) == IF n = 0 THEN 1 ELSE IF n = 1 THEN 2 ELSE IF n = 2 THEN 4 ELSE 8

\* for attempt in range(self.retry_attempts): the next iteration, or the
\* return None after the loop
RequestNextAttempt ==
    /\ rq_attempt' = rq_attempt + 1
    /\ rq_wait' = 0
    /\ IF rq_attempt + 1 < retry_attempts
         THEN rq_pc' = "attempt" /\ rq_result' = rq_result
         ELSE rq_pc' = "returned" /\ rq_result' = None

\* if attempt < self.retry_attempts - 1: await asyncio.sleep(1)
RequestBackoff ==
    IF rq_attempt < retry_attempts - 1
      THEN /\ rq_pc' = "sleep"
           /\ rq_wait' = 1
           /\ UNCHANGED <<rq_attempt, rq_result>>
      ELSE RequestNextAttempt

\* One pass through the try block with a method _request knows: the HTTP
\* request is made and comes back with response
RequestAttempt(response) ==
    /\ rq_pc = "attempt"
    /\ rq_method \in SupportedMethods
    /\ rq_responses' = Append(rq_responses, response)
    /\ UNCHANGED rq_method
    /\ CASE response \in Status200 /\ ~JsonRaises(response) ->
              /\ rq_pc' = "returned"
              /\ rq_result' = response_json(response)
              /\ UNCHANGED <<rq_attempt, rq_wait>>
         [] response \in Status200 /\ JsonRaises(response) ->
              RequestBackoff
         [] response = "429" ->
              /\ rq_pc' = "sleep"
              /\ rq_wait' = Pow2(rq_attempt)
              /\ UNCHANGED <<rq_attempt, rq_result>>
         [] OTHER -> RequestBackoff

\* One pass with another method: raise ValueError, caught by except Exception;
\* no HTTP request is made
RequestUnsupported ==
    /\ rq_pc = "attempt"
    /\ rq_method \notin SupportedMethods
    /\ UNCHANGED <<rq_method, rq_responses>>
    /\ RequestBackoff

\* asyncio.sleep returns
RequestSleepOver ==
    /\ rq_pc = "sleep"
    /\ UNCHANGED <<rq_method, rq_responses>>
    /\ RequestNextAttempt

RequestIdle ==
    /\ rq_pc = "idle"
    /\ rq_method = "GET"
    /\ rq_attempt = 0
    /\ rq_responses = <<>>
    /\ rq_wait = 0
    /\ rq_result = None

RequestInit ==
    /\ rq_pc = "attempt"
    /\ rq_method \in Methods
    /\ rq_attempt = 0
    /\ rq_responses = <<>>
    /\ rq_wait = 0
    /\ rq_result = None

-----------------------------------------------------------------------------
(* VocodeNativeServer: start() and stop() *)

\* calls of stop() on one server
MaxStops == 2

\* audio chunks one server receives
MaxChunks == 2

Built == "StreamingConversation"

\* self.conversation.is_active()
is_active == ns_started /\ ~ns_terminated

\* while self.is_running and self.conversation.is_active(): the loop is
\* entered again, awaiting audio, or left, and start() returns
NativeLoopTest(running) ==
    ns_pc' = IF running /\ is_active THEN "loop" ELSE "returned"

\* start() up to its first await: is_running = True, get_full_context awaited
NativeStart ==
    /\ ns_pc = "new"
    /\ ns_pc' = "ctx"
    /\ ns_is_running' = TRUE
    /\ UNCHANGED <<ns_conversation, ns_started, ns_terminated, ns_chunks,
                   ns_stop_pc, ns_stop_at, ns_reports>>

\* get_full_context answered or raised (the default context is taken);
\* create_voice_conversation is awaited
NativeContextLoaded(loaded) ==
    /\ ns_pc = "ctx"
    /\ ns_pc' = "record"
    /\ UNCHANGED <<ns_is_running, ns_conversation, ns_started, ns_terminated,
                   ns_chunks, ns_stop_pc, ns_stop_at, ns_reports>>

\* create_voice_conversation answered or raised (logged); the
\* StreamingConversation is built and conversation.start() awaited, or
\* building it raises and start() raises
NativeRecordCreated(created, built) ==
    /\ ns_pc = "record"
    /\ IF built
         THEN ns_conversation' = Built /\ ns_pc' = "starting"
         ELSE ns_conversation' = ns_conversation /\ ns_pc' = "raised"
    /\ UNCHANGED <<ns_is_running, ns_started, ns_terminated, ns_chunks,
                   ns_stop_pc, ns_stop_at, ns_reports>>

\* conversation.start() returned, and the loop condition is tested, or raised,
\* and start() raises
NativeConversationStarted(started) ==
    /\ ns_pc = "starting"
    /\ IF started
         THEN /\ ns_started' = TRUE
              /\ ns_pc' = IF ns_is_running /\ ~ns_terminated THEN "loop" ELSE "returned"
         ELSE /\ ns_started' = ns_started
              /\ ns_pc' = "raised"
    /\ UNCHANGED <<ns_is_running, ns_conversation, ns_terminated, ns_chunks,
                   ns_stop_pc, ns_stop_at, ns_reports>>

\* the wait for audio is over: a chunk is handed to the conversation, or the
\* second passed without one, or get_audio raised and the loop is left
NativeAudio(outcome) ==
    /\ ns_pc = "loop"
    /\ CASE outcome = "chunk" ->
              /\ ns_chunks < MaxChunks
              /\ ns_chunks' = ns_chunks + 1
              /\ NativeLoopTest(ns_is_running)
         [] outcome = "timeout" ->
              /\ ns_chunks' = ns_chunks
              /\ NativeLoopTest(ns_is_running)
         [] OTHER ->
              /\ ns_chunks' = ns_chunks
              /\ ns_pc' = "returned"
    /\ UNCHANGED <<ns_is_running, ns_conversation, ns_started, ns_terminated,
                   ns_stop_pc, ns_stop_at, ns_reports>>

\* the conversation ends on its own (the library terminates it)
NativeConversationEnded ==
    /\ is_active
    /\ ns_terminated' = TRUE
    /\ UNCHANGED <<ns_pc, ns_is_running, ns_conversation, ns_started, ns_chunks,
                   ns_stop_pc, ns_stop_at, ns_reports>>

\* the rest of stop() after the conversation was dealt with: the transcripts
\* are flushed and the cost reported in tasks, stop() returns
NativeStopDone ==
    /\ ns_reports' = ns_reports + 1
    /\ ns_stop_pc' = "returned"

\* stop(): is_running = False; a conversation that exists is terminated
NativeStop ==
    /\ ns_stop_pc \in {"none", "returned", "raised"}
    /\ Len(ns_stop_at) < MaxStops
    /\ ns_stop_at' = Append(ns_stop_at, ns_pc)
    /\ ns_is_running' = FALSE
    /\ IF ns_conversation # None
         THEN ns_stop_pc' = "terminating" /\ ns_reports' = ns_reports
         ELSE NativeStopDone
    /\ UNCHANGED <<ns_pc, ns_conversation, ns_started, ns_terminated, ns_chunks>>

\* conversation.terminate() returned, or raised and stop() raises
NativeTerminated(terminated) ==
    /\ ns_stop_pc = "terminating"
    /\ IF terminated
         THEN ns_terminated' = TRUE /\ NativeStopDone
         ELSE /\ ns_stop_pc' = "raised"
              /\ UNCHANGED <<ns_terminated, ns_reports>>
    /\ UNCHANGED <<ns_pc, ns_is_running, ns_conversation, ns_started, ns_chunks,
                   ns_stop_at>>

\* VocodeNativeServer.__init__
NativeInit ==
    /\ ns_pc = "new"
    /\ ns_is_running = FALSE
    /\ ns_conversation = None
    /\ ns_started = FALSE
    /\ ns_terminated = FALSE
    /\ ns_chunks = 0
    /\ ns_stop_pc = "none"
    /\ ns_stop_at = <<>>
    /\ ns_reports = 0

-----------------------------------------------------------------------------
(* lifespan: the shutdown of the application *)

\* The server has stopped serving and every handler is over; the code after
\* the yield runs: the call ids the router holds are listed
LifespanShutdown ==
    /\ shutdown_pc = "serving"
    /\ tasks = {}
    /\ shutdown_pc' = "cleanup"
    /\ shutdown_keys' = DOMAIN router_active

\* One pass of the loop: await telephony_router.handle_call_end(call_sid, 0),
\* whose exception is logged; the next pass waits until this call is over
LifespanCleanupCall(c) ==
    /\ shutdown_pc = "cleanup"
    /\ tasks = {}
    /\ c \in shutdown_keys
    /\ shutdown_keys' = shutdown_keys \ {c}
    /\ UNCHANGED shutdown_pc
    /\ RouterHandleCallEnd(c)

\* the adapter's report of the call being cleaned up is over
LifespanCleanupResume(t) ==
    /\ shutdown_pc = "cleanup"
    /\ TwilioCallEndResume(t)
    /\ UNCHANGED <<shutdown_pc, shutdown_keys>>

\* the loop is over: "Shutdown complete"
LifespanComplete ==
    /\ shutdown_pc = "cleanup"
    /\ tasks = {}
    /\ shutdown_keys = {}
    /\ shutdown_pc' = "complete"
    /\ UNCHANGED shutdown_keys

\* the application serves
LifespanInit ==
    /\ shutdown_pc = "serving"
    /\ shutdown_keys = {}

-----------------------------------------------------------------------------
(* Specifications *)

Sessions == 0..MaxInvocations

\* TelephonyRouter.get_stats
get_stats ==
    [active_calls |-> Cardinality(DOMAIN router_active),
     calls_by_provider |->
         [twilio |-> Cardinality({c \in DOMAIN router_active : router_active[c] = TWILIO}),
          exotel |-> Cardinality({c \in DOMAIN router_active : router_active[c] = EXOTEL})],
     active_twilio_calls |-> Cardinality(DOMAIN twilio_active),
     active_exotel_calls |-> Cardinality(DOMAIN exotel_active)]

RegistryInit ==
    /\ router_active = EmptyDict
    /\ twilio_active = EmptyDict
    /\ exotel_active = EmptyDict
    /\ tasks = {}
    /\ nextInv = 1
    /\ cost_reports = [s \in Sessions |-> 0]
    /\ terminations = [s \in Sessions |-> 0]
    /\ last = NoneDone

Init == RegistryInit /\ SessionInit /\ AdmissionIdle /\ EgressIdle /\ IdsInit /\ CodecIdle /\ RequestIdle /\ NativeInit /\ LifespanInit

InitAdmission == RegistryInit /\ SessionInit /\ AdmissionInit /\ EgressIdle /\ IdsInit /\ CodecIdle /\ RequestIdle /\ NativeInit /\ LifespanInit

\* One inbound call: its provider is resolved, then its context is loaded
NextAdmission ==
    \/ GetProviderForCall /\ UNCHANGED <<rvars, svars, scenv>>
    \/ \E body \in BusinessBodies \cup ContextBodies : RequestAnswered(body) /\ UNCHANGED <<rvars, svars, scenv>>
    \/ \E failure \in AttemptFailures : RequestFailed(failure) /\ UNCHANGED <<rvars, svars, scenv>>
    \/ ProviderFetched /\ UNCHANGED <<rvars, svars, scenv>>
    \/ ContextRequested /\ UNCHANGED <<rvars, svars, scenv>>
    \/ ContextLoaded /\ UNCHANGED <<rvars, svars, scenv>>

SpecAdmission == InitAdmission /\ [][NextAdmission]_vars


\* the requests the mounted routes serve (get_all_routes): webhooks and
\* streams go to the adapters' handlers directly
NextRoutes ==
    \/ \E c \in CallIds, signed \in BOOLEAN : TwilioInboundRoute(c, signed) /\ UNCHANGED <<svars, admv, scenv>>
    \/ \E t \in tasks, ctx \in ContextShapes : TwilioInboundContext(t, ctx) /\ UNCHANGED <<svars, admv, scenv>>
    \/ \E t \in tasks : TwilioInboundDone(t) /\ UNCHANGED <<svars, admv, scenv>>
    \/ \E c \in CallIds, status \in TwilioStatuses, signed \in BOOLEAN :
            TwilioStatusRoute(c, status, signed) /\ UNCHANGED <<svars, admv, scenv>>
    \/ \E t \in tasks : TwilioCallEndResume(t) /\ UNCHANGED <<svars, admv, scenv>>
    \/ \E c \in CallIds, signed \in BOOLEAN : ExotelStatusRoute(c, signed) /\ UNCHANGED <<svars, admv, scenv>>
    \/ \E t \in tasks, terminated \in BOOLEAN : ExotelEndCallResume(t, terminated) /\ UNCHANGED <<svars, admv, scenv>>
    \/ \E signed \in BOOLEAN : ExotelStreamRoute(signed) /\ UNCHANGED <<svars, admv, scenv>>
    \/ \E t \in tasks, c \in CallIds : ExotelStreamStart(t, c) /\ UNCHANGED <<svars, admv, scenv>>
    \/ \E t \in tasks, ctx \in ContextShapes : ExotelStartContext(t, ctx) /\ UNCHANGED <<svars, admv, scenv>>
    \/ \E t \in tasks : ExotelStartRecorded(t) /\ UNCHANGED <<svars, admv, scenv>>
    \/ \E t \in tasks, started \in BOOLEAN : ExotelStartStarted(t, started) /\ UNCHANGED <<svars, admv, scenv>>
    \/ \E t \in tasks : ExotelStreamMedia(t, AudioPayload) /\ UNCHANGED <<svars, admv, scenv>>
    \/ \E t \in tasks : ExotelStreamClose(t) /\ UNCHANGED <<svars, admv, scenv>>

SpecRoutes == Init /\ [][NextRoutes]_vars

\* the /exotel/stream endpoint alone, with every text frame a peer can send:
\* media events with any payload, and texts that carry no event
NextFrames ==
    \/ \E signed \in BOOLEAN : ExotelStreamRoute(signed) /\ UNCHANGED <<svars, admv, scenv>>
    \/ \E t \in tasks, c \in CallIds : ExotelStreamStart(t, c) /\ UNCHANGED <<svars, admv, scenv>>
    \/ \E t \in tasks, ctx \in ContextShapes : ExotelStartContext(t, ctx) /\ UNCHANGED <<svars, admv, scenv>>
    \/ \E t \in tasks : ExotelStartRecorded(t) /\ UNCHANGED <<svars, admv, scenv>>
    \/ \E t \in tasks, started \in BOOLEAN : ExotelStartStarted(t, started) /\ UNCHANGED <<svars, admv, scenv>>
    \/ \E t \in tasks, payload \in Payloads :
          ExotelStreamMedia(t, payload) /\ UNCHANGED <<svars, admv, scenv>>
    \/ \E t \in tasks, text \in TextFrames :
          ExotelStreamText(t, text) /\ UNCHANGED <<svars, admv, scenv>>
    \/ \E t \in tasks : ExotelStreamClose(t) /\ UNCHANGED <<svars, admv, scenv>>
    \/ \E t \in tasks, terminated \in BOOLEAN : ExotelEndCallResume(t, terminated) /\ UNCHANGED <<svars, admv, scenv>>

SpecFrames == Init /\ [][NextFrames]_vars

\* one audio sent by _stream_audio or by ExotelOutputDevice.play
InitEgress == RegistryInit /\ SessionInit /\ AdmissionIdle /\ EgressInit /\ IdsInit /\ CodecIdle /\ RequestIdle /\ NativeInit /\ LifespanInit

NextEgress ==
    \/ OutBegin /\ UNCHANGED <<rvars, svars, admv, idv, codv, rqv, nsv, lfv>>
    \/ \E sent \in BOOLEAN : OutChunkSent(sent) /\ UNCHANGED <<rvars, svars, admv, idv, codv, rqv, nsv, lfv>>
    \/ OutStop /\ UNCHANGED <<rvars, svars, admv, idv, codv, rqv, nsv, lfv>>

SpecEgress == InitEgress /\ [][NextEgress]_vars

\* calls arriving at exotel_stream and at exotel_voice while time passes
NextIds ==
    \/ \E callSid, streamSid \in ProviderSids \cup {NoSid} :
          StreamStartEvent(callSid, streamSid) /\ UNCHANGED <<rvars, svars, admv, egv, codv, rqv, nsv, lfv>>
    \/ \E n \in 1..MaxArrivals : StreamStartStored(n) /\ UNCHANGED <<rvars, svars, admv, egv, codv, rqv, nsv, lfv>>
    \/ \E CallSid, callSid \in ProviderSids \cup {NoSid} :
          VoiceWebhook(CallSid, callSid) /\ UNCHANGED <<rvars, svars, admv, egv, codv, rqv, nsv, lfv>>
    \/ ClockTick /\ UNCHANGED <<rvars, svars, admv, egv, codv, rqv, nsv, lfv>>

SpecIds == Init /\ [][NextIds]_vars

\* one byte decoded and encoded again, or one sample encoded
InitCodec ==
    RegistryInit /\ SessionInit /\ AdmissionIdle /\ EgressIdle /\ IdsInit /\ CodecInit /\ RequestIdle /\ NativeInit /\ LifespanInit

NextCodec ==
    \/ MulawToPcm /\ UNCHANGED <<rvars, svars, admv, egv, idv, rqv, nsv, lfv>>
    \/ PcmToMulaw /\ UNCHANGED <<rvars, svars, admv, egv, idv, rqv, nsv, lfv>>

SpecCodec == InitCodec /\ [][NextCodec]_vars

\* one call of _request with any method, each attempt coming back with anything
InitRequest ==
    RegistryInit /\ SessionInit /\ AdmissionIdle /\ EgressIdle /\ IdsInit /\ CodecIdle /\ RequestInit /\ NativeInit /\ LifespanInit

NextRequest ==
    \/ \E response \in Responses : RequestAttempt(response) /\ UNCHANGED <<rvars, svars, admv, egv, idv, codv, nsv, lfv>>
    \/ RequestUnsupported /\ UNCHANGED <<rvars, svars, admv, egv, idv, codv, nsv, lfv>>
    \/ RequestSleepOver /\ UNCHANGED <<rvars, svars, admv, egv, idv, codv, nsv, lfv>>

SpecRequest == InitRequest /\ [][NextRequest]_vars

\* one VocodeNativeServer whose stop() is called at any moment
NextNative ==
    \/ NativeStart /\ UNCHANGED <<rvars, svars, admv, egv, idv, codv, rqv, lfv>>
    \/ \E loaded \in BOOLEAN : NativeContextLoaded(loaded) /\ UNCHANGED <<rvars, svars, admv, egv, idv, codv, rqv, lfv>>
    \/ \E created, built \in BOOLEAN : NativeRecordCreated(created, built) /\ UNCHANGED <<rvars, svars, admv, egv, idv, codv, rqv, lfv>>
    \/ \E started \in BOOLEAN : NativeConversationStarted(started) /\ UNCHANGED <<rvars, svars, admv, egv, idv, codv, rqv, lfv>>
    \/ \E outcome \in {"chunk", "timeout", "exception"} : NativeAudio(outcome) /\ UNCHANGED <<rvars, svars, admv, egv, idv, codv, rqv, lfv>>
    \/ NativeConversationEnded /\ UNCHANGED <<rvars, svars, admv, egv, idv, codv, rqv, lfv>>
    \/ NativeStop /\ UNCHANGED <<rvars, svars, admv, egv, idv, codv, rqv, lfv>>
    \/ \E terminated \in BOOLEAN : NativeTerminated(terminated) /\ UNCHANGED <<rvars, svars, admv, egv, idv, codv, rqv, lfv>>

SpecNative == Init /\ [][NextNative]_vars

\* The registries under any interleaving of their handlers
Next ==
    \/ NextRoutes
    \/ \E c \in CallIds, provider \in TelephonyProvider : RouterHandleInboundCall(c, provider) /\ UNCHANGED <<svars, admv, scenv>>
    \/ \E c \in CallIds : RouterHandleCallEnd(c) /\ UNCHANGED <<svars, admv, scenv>>

Spec == Init /\ [][Next]_vars

\* the registries while the application serves, then its shutdown
NextShutdown ==
    \/ shutdown_pc = "serving" /\ Next
    \/ LifespanShutdown /\ UNCHANGED <<rvars, svars, admv, egv, idv, codv, rqv, nsv>>
    \/ \E c \in CallIds : LifespanCleanupCall(c) /\ UNCHANGED <<svars, admv, egv, idv, codv, rqv, nsv>>
    \/ \E t \in tasks : LifespanCleanupResume(t) /\ UNCHANGED <<svars, admv, egv, idv, codv, rqv, nsv>>
    \/ LifespanComplete /\ UNCHANGED <<rvars, svars, admv, egv, idv, codv, rqv, nsv>>

SpecShutdown == Init /\ [][NextShutdown]_vars

\* One session under any interleaving of its tasks, its transport and its clock
NextSession ==
    \/ SessionStart /\ UNCHANGED <<rvars, admv, scenv>>
    \/ \E cfg \in ConfiguredDurations, whisper_ok \in BOOLEAN :
          SessionConfigured(cfg, whisper_ok) /\ UNCHANGED <<rvars, admv, scenv>>
    \/ SessionGathered /\ UNCHANGED <<rvars, admv, scenv>>
    \/ Stop /\ UNCHANGED <<rvars, admv, scenv>>
    \/ StagesBegin /\ UNCHANGED <<rvars, admv, scenv>>
    \/ \E k \in Bursts : RecvFrames(k) /\ UNCHANGED <<rvars, admv, scenv>>
    \/ RecvIgnored /\ UNCHANGED <<rvars, admv, scenv>>
    \/ RecvDisconnect /\ UNCHANGED <<rvars, admv, scenv>>
    \/ \E stt \in STTOutcomes : TransPoll(stt) /\ UNCHANGED <<rvars, admv, scenv>>
    \/ \E m \in msg_tasks : MsgLogged(m) /\ UNCHANGED <<rvars, admv, scenv>>
    \/ \E m \in msg_tasks, resp \in BackendReplies : MsgResponse(m, resp) /\ UNCHANGED <<rvars, admv, scenv>>
    \/ \E m \in msg_tasks : MsgReplyLogged(m) /\ UNCHANGED <<rvars, admv, scenv>>
    \/ SynthGet /\ UNCHANGED <<rvars, admv, scenv>>
    \/ \E audio \in BOOLEAN : SynthSynthesized(audio) /\ UNCHANGED <<rvars, admv, scenv>>
    \/ SynthStreamed /\ UNCHANGED <<rvars, admv, scenv>>
    \/ WdCheck /\ UNCHANGED <<rvars, admv, scenv>>
    \/ WdFarewellDone /\ UNCHANGED <<rvars, admv, scenv>>
    \/ \E t \in Timers : Tick(t) /\ UNCHANGED <<rvars, admv, scenv>>

SpecSession == Init /\ [][NextSession]_vars

\* The session object whose start() is called again after an earlier call
\* of start() has returned.
MaxStarts == 2

\* calls of start() that have got as far as their first text
StartsSoFar ==
    Cardinality({i \in 1..Len(enqueued) : enqueued[i] \in {WELCOME, STT_APOLOGY}})

\* start() has no guard: it sets is_running and start_time and loads the
\* business configuration whatever the object has been through
SessionStartAgain ==
    /\ start_pc = "returned"
    /\ StartsSoFar < MaxStarts
    /\ is_running' = TRUE
    /\ start_time' = now
    /\ start_pc' = "config"
    /\ UNCHANGED <<business_config, now, recvv, speechv, transv, msgv, queuev,
                   synth_pc, audio_data, wdv>>

NextRestart ==
    \/ NextSession
    \/ SessionStartAgain /\ UNCHANGED <<rvars, admv, scenv>>

SpecRestart == Init /\ [][NextRestart]_vars

\* The session of a caller who sends no audio: the same steps, without the
\* arrival of frames (so without utterances and replies), and with the
\* clock followed past the default duration cap.
MaxIdleTime == 603100

IdleTimers ==
    (IF trans_pc = "sleep" /\ trans_wake <= MaxPollTime THEN {trans_wake} ELSE {})
    \cup (IF wd_pc \in {"sleep", "farewell"} /\ wd_wake <= MaxIdleTime THEN {wd_wake} ELSE {})

IdleStart == SessionStart /\ UNCHANGED <<rvars, admv, scenv>>
IdleConfigured ==
    \E cfg \in ConfiguredDurations, whisper_ok \in BOOLEAN :
        SessionConfigured(cfg, whisper_ok) /\ UNCHANGED <<rvars, admv, scenv>>
IdleGathered == SessionGathered /\ UNCHANGED <<rvars, admv, scenv>>
IdleStop == Stop /\ UNCHANGED <<rvars, admv, scenv>>
IdleStagesBegin == StagesBegin /\ UNCHANGED <<rvars, admv, scenv>>
IdleRecvIgnored == RecvIgnored /\ UNCHANGED <<rvars, admv, scenv>>
IdleRecvDisconnect == RecvDisconnect /\ UNCHANGED <<rvars, admv, scenv>>
IdleTransPoll == \E stt \in STTOutcomes : TransPoll(stt) /\ UNCHANGED <<rvars, admv, scenv>>
IdleSynthGet == SynthGet /\ UNCHANGED <<rvars, admv, scenv>>
IdleSynthSynthesized == \E audio \in BOOLEAN : SynthSynthesized(audio) /\ UNCHANGED <<rvars, admv, scenv>>
IdleSynthStreamed == SynthStreamed /\ UNCHANGED <<rvars, admv, scenv>>
IdleWdCheck == WdCheck /\ UNCHANGED <<rvars, admv, scenv>>
IdleWdFarewellDone == WdFarewellDone /\ UNCHANGED <<rvars, admv, scenv>>
IdleTick == \E t \in IdleTimers : Tick(t) /\ UNCHANGED <<rvars, admv, scenv>>

NextIdle ==
    \/ IdleStart
    \/ IdleConfigured
    \/ IdleGathered
    \/ IdleStop
    \/ IdleStagesBegin
    \/ IdleRecvIgnored
    \/ IdleRecvDisconnect
    \/ IdleTransPoll
    \/ IdleSynthGet
    \/ IdleSynthSynthesized
    \/ IdleSynthStreamed
    \/ IdleWdCheck
    \/ IdleWdFarewellDone
    \/ IdleTick

\* The event loop runs every task that is ready, the backend and the speech
\* service answer, and time passes.  Nothing obliges the caller of start()
\* and stop() or the transport to act.
IdleFairness ==
    /\ WF_vars(IdleConfigured)
    /\ WF_vars(IdleGathered)
    /\ WF_vars(IdleStagesBegin)
    /\ WF_vars(IdleTransPoll)
    /\ WF_vars(IdleSynthGet)
    /\ WF_vars(IdleSynthSynthesized)
    /\ WF_vars(IdleSynthStreamed)
    /\ WF_vars(IdleWdCheck)
    /\ WF_vars(IdleWdFarewellDone)
    /\ WF_vars(IdleTick)

SpecIdleFair == Init /\ [][NextIdle]_vars /\ IdleFairness

-----------------------------------------------------------------------------
(* Claims about the registries *)

EndOps == {"router_end", "tw_end", "ex_status", "ex_stream"}

\* C1: admission respects capacity: no registry ever holds more than
\* MAX_CONCURRENT_CALLS calls, because an inbound call arriving at capacity
\* is rejected.
C1_CapacityRespected ==
    /\ Cardinality(DOMAIN router_active) <= MAX_CONCURRENT_CALLS
    /\ Cardinality(DOMAIN twilio_active) <= MAX_CONCURRENT_CALLS
    /\ Cardinality(DOMAIN exotel_active) <= MAX_CONCURRENT_CALLS

\* C2: cleanup runs exactly once per call: however the end-of-call triggers
\* of one call interleave, its conversation is terminated at most once, its
\* cost is reported at most once, and no trigger fails on an entry that the
\* other has already deleted.
C2_CleanupOnce ==
    /\ \A s \in Sessions : terminations[s] <= 1 /\ cost_reports[s] <= 1
    /\ last.op \in EndOps => last.outcome # "KeyError"

\* C3: no two admissions for one call id succeed: while a call id stays
\* registered with an adapter, the session record stored for it is the one
\* the first admission stored.
C3_RecordNeverReplaced ==
    [][ /\ \A c \in (DOMAIN twilio_active) \cap (DOMAIN twilio_active') :
              twilio_active'[c].session = twilio_active[c].session
        /\ \A c \in (DOMAIN exotel_active) \cap (DOMAIN exotel_active') :
              exotel_active'[c].session = exotel_active[c].session ]_vars

\* C4: when TelephonyRouter.handle_call_end(c), invoked for a registered call
\* c, finishes (by returning or by raising), c is not in the router's
\* active_calls.
C4_RouterEntryRemoved ==
    (last.op = "router_end" /\ last.registered)
        => last.call \notin DOMAIN router_active

\* C5: a session that fails to start is cleaned up: when
\* TelephonyRouter.handle_inbound_call finishes by raising, and when the
\* Exotel stream handler finishes after conversation start for its call, no
\* active_calls table it wrote holds the call id.
C5_FailedStartCleanedUp ==
    /\ (last.op = "router_inbound" /\ last.outcome # "returned")
          => /\ last.call \notin DOMAIN router_active
    /\ (last.op = "ex_stream" /\ last.call # NoCall)
          => last.call \notin DOMAIN exotel_active

\* C6: removal is idempotent: handle_call_end of the router or of the Twilio
\* adapter, or end_call of the Exotel adapter, invoked for a call id its
\* registry does not hold, returns without an exception, issues no backend
\* request and leaves the three registries as they were.
C6_EndOfUnknownCallIsNoOp ==
    [][ (last'.op \in EndOps /\ last'.call # NoCall /\ ~last'.registered)
          => /\ last'.outcome = "returned"
             /\ UNCHANGED <<router_active, twilio_active, exotel_active,
                            cost_reports, terminations>> ]_vars

\* C6's case: a second 'completed' notification, handled after the first one
\* has reported the cost and deleted the entry
C6_Witness ==
    /\ last.op = "tw_end" /\ ~last.registered /\ last.outcome = "returned"
    /\ \E s \in Sessions : cost_reports[s] = 1
    /\ tasks = {}
    /\ twilio_active = EmptyDict

-----------------------------------------------------------------------------
(* Claims about one session *)

\* C7: closing always completes: once is_running is False the four stage
\* tasks finish and start() returns, even if no further frame arrives and
\* the synthesis queue is empty.  So there is no closing session whose
\* start() still waits in gather while nothing is left that could run: the
\* other tasks over, no reply in preparation, and the synthesis loop
\* suspended on the empty queue.
C7_ClosingCompletes ==
    ~ ( /\ ~is_running
        /\ start_pc = "gather"
        /\ recv_pc = "done" /\ trans_pc = "done" /\ wd_pc = "done"
        /\ msg_tasks = {}
        /\ synth_pc = "get" /\ synthesis_queue = <<>> )

\* C8: replies are produced in utterance order: the texts that answer
\* utterances (reply or apology) are put on the synthesis queue in the order
\* in which the transcription loop finalized the utterances.
C8_RepliesInUtteranceOrder ==
    \A i, j \in DOMAIN enqueued :
        (i < j /\ enqueued[i].utt # 0 /\ enqueued[j].utt # 0)
            => enqueued[i].utt < enqueued[j].utt

\* the last chunk of the last utterance emitted so far (0 before the first)
LastEmitted ==
    IF utterances = <<>> THEN 0
    ELSE utterances[Len(utterances)][Len(utterances[Len(utterances)])]

\* C9: endpointing rule: a poll of the transcription loop that finds a
\* non-empty speaking buffer emits it as an utterance if and only if its
\* chunks x 20 ms are at least 500 ms and at least 500 ms have passed since
\* the last frame; and no frame is emitted in two utterances: utterances only
\* grows by appending one buffer, whose frames are distinct and arrived
\* after every frame emitted before.
C9_EndpointingRule ==
    /\ [][ ((\E stt \in STTOutcomes : TransPoll(stt)) /\ speaking_buffer # <<>>)
             => /\ (utterances' = Append(utterances, speaking_buffer))
                      <=> (/\ Len(speaking_buffer) * 20 >= 500
                           /\ now - last_speech_time >= 500)
                /\ utterances' # utterances
                      => utterances' = Append(utterances, speaking_buffer) ]_vars
    /\ [][ utterances' # utterances
             => /\ \E u \in {speaking_buffer} : utterances' = Append(utterances, u)
                /\ LastEmitted < speaking_buffer[1]
                /\ \A i \in 1..(Len(speaking_buffer) - 1) :
                       speaking_buffer[i] < speaking_buffer[i + 1] ]_vars

\* C9's case: two utterances have been emitted, the first of exactly 25
\* chunks, and the loop goes on polling
C9_Witness ==
    /\ Len(utterances) = 2
    /\ Len(utterances[1]) = 25
    /\ speaking_buffer = <<>>
    /\ trans_pc = "sleep"

\* C10: a speaking buffer of fewer than 25 chunks is never passed to
\* transcription however long the silence lasts: a poll that finds one
\* leaves speaking_buffer and is_speaking unchanged and starts no
\* transcription, every utterance transcribed has at least 25 chunks, and
\* once the transcription loop is over nothing is transcribed any more.
C10_ShortBufferNeverTranscribed ==
    /\ [][ ((\E stt \in STTOutcomes : TransPoll(stt)) /\ Len(speaking_buffer) < 25)
             => UNCHANGED <<speaking_buffer, is_speaking, utterances,
                            recent_transcriptions, msg_tasks>> ]_vars
    /\ [][ trans_pc = "done" => UNCHANGED utterances ]_vars
    /\ [] (\A i \in DOMAIN utterances : Len(utterances[i]) >= 25)

\* C10's case: the call has ended with a short buffer that the last poll
\* found when the silence had lasted 500 ms or more, and nothing was
\* transcribed
C10_Witness ==
    /\ trans_pc = "done"
    /\ Len(speaking_buffer) \in 1..24
    /\ trans_wake - poll_sleep >= last_speech_time + 500
    /\ now >= trans_wake
    /\ utterances = <<>>
    /\ start_pc = "returned"

-----------------------------------------------------------------------------
(* Claims about closing, failures and the watchdog *)

\* C11: frames arriving after the session has begun closing are dropped:
\* once is_running is False no step adds a frame to speaking_buffer (the
\* buffer stays as it is, or is emptied by the transcription loop).
C11_FramesAfterClosingDropped ==
    [][ ~is_running => (speaking_buffer' = speaking_buffer \/ speaking_buffer' = <<>>) ]_vars

\* C12: every stage loop's catch-all boundary forces closing: when the
\* timeout checker has left its loop through its outer exception handler,
\* and when the receive loop has left its loop (its finally clause runs on
\* every way out), is_running is False.
C12_CatchAllForcesClosing ==
    /\ wd_pc = "caught" => ~is_running
    /\ recv_pc = "done" => ~is_running

\* the watchdog is running and the caller, who never sent audio, has been
\* silent for the inactivity timeout or longer
CallerInactive ==
    /\ is_running
    /\ wd_pc = "sleep"
    /\ audio_buffer = 0
    /\ now - start_time >= inactivity_timeout

\* C13: inactivity ends the call: if the caller sends no audio, is_running
\* becomes False without waiting for the duration cap, that is, at a time
\* when the call has lasted less than its maxCallDuration.
C13_InactivityEndsCall ==
    CallerInactive ~> (~is_running /\ now - start_time < business_config)

InQueue(text) == \E i \in 1..Len(synthesis_queue) : synthesis_queue[i] = text

\* C14: at the duration cap the farewell is enqueued before is_running is
\* cleared, and it is synthesized and streamed before the synthesis loop
\* stops, whatever the loop was doing: at the step of the timeout checker
\* that clears is_running of a running session, the farewell has been
\* enqueued and is no longer waiting in the queue behind a text the loop is
\* still synthesizing or streaming (the loop leaves at its next test of
\* is_running and takes nothing more from the queue).
C14_FarewellSpokenAtCap ==
    [][ (/\ wd_pc = "farewell" /\ wd_pc' = "done"
         /\ is_running /\ ~is_running'
         /\ synth_pc \in {"tts", "stream"})
        => (/\ \E i \in 1..Len(enqueued) : enqueued[i] = FAREWELL
            /\ ~InQueue(FAREWELL)) ]_vars

\* C15: if the Whisper model fails to load, the apology that start() puts
\* on the queue is dequeued, synthesized and streamed: start() never
\* returns with a text in the queue and no synthesis loop to take it.
C15_ApologySpoken ==
    ~(start_pc = "returned" /\ synth_pc = "idle" /\ InQueue(STT_APOLOGY))

\* The code names no bound: asyncio.Queue() is created without maxsize and
\* the bytearray is only ever extended.  The largest burst of frames the
\* transport delivers stands for the bound B; a caller who sends B + 1
\* frames passes any other B in the same way.
QueueBound == CHOOSE b \in Bursts : \A k \in Bursts : k <= b

\* C16: the internal queues and buffers are bounded: in every reachable
\* state synthesis_queue and audio_buffer hold at most B elements (frames).
C16_BuffersBounded ==
    /\ Len(synthesis_queue) <= QueueBound
    /\ audio_buffer <= QueueBound

\* the texts that the _process_user_message call for utterance u has queued
PutsFor(u) == {i \in 1..Len(enqueued) : enqueued[i].utt = u}

InHistory(turn) == \E i \in 1..Len(conversation_history) : conversation_history[i] = turn

\* C17: every call of _process_user_message puts exactly one text on the
\* synthesis queue: nothing while the call is under way, and once it has
\* finished exactly one, which is the backend's reply if the backend gave
\* one (the assistant's turn is in the history) and an apology if not.
C17_ExactlyOneTextPerMessage ==
    \A u \in 1..Len(utterances) :
        IF ~InHistory(Turn("user", u))
          THEN PutsFor(u) = {}
        ELSE IF \E m \in msg_tasks : m.utt = u
          THEN PutsFor(u) = {}
        ELSE /\ Cardinality(PutsFor(u)) = 1
             /\ \A i \in PutsFor(u) :
                    IF InHistory(Turn("assistant", u))
                      THEN enqueued[i].kind = "reply"
                      ELSE enqueued[i].kind \in {"rephrase", "trouble"}

\* two calls have finished, one with the reply and one with an apology
C17_Witness ==
    /\ msg_tasks = {}
    /\ \E i, j \in 1..Len(enqueued) :
          /\ enqueued[i].kind = "reply"
          /\ enqueued[j].kind \in {"rephrase", "trouble"}
          /\ enqueued[i].utt # enqueued[j].utt

\* C18: backend bookkeeping never blocks the pipeline: the AI request for an
\* utterance is issued without waiting for logEvent, so no call of
\* _process_user_message is ever suspended on the user_message log with its
\* process_voice_message request still to be sent.
C18_BookkeepingNeverBlocks ==
    \A m \in msg_tasks : m.pc # "log_user"

\* a request that does not carry a valid signature arrives at one of the
\* endpoints that can create or remove a call entry, and is handled up to
\* the handler's first await
UnsignedRequest ==
    \/ \E c \in CallIds : TwilioInboundRoute(c, FALSE)
    \/ \E c \in CallIds, status \in TwilioStatuses : TwilioStatusRoute(c, status, FALSE)
    \/ \E c \in CallIds : ExotelStatusRoute(c, FALSE)
    \/ ExotelStreamRoute(FALSE)

\* C19: a webhook whose signature validation fails does no session work: a
\* request without a valid signature leaves the three active_calls tables
\* as they were, sends nothing to the backend and terminates no
\* conversation.
C19_UnsignedRequestDoesNothing ==
    [][ UnsignedRequest
          => UNCHANGED <<router_active, twilio_active, exotel_active,
                         cost_reports, terminations>> ]_vars

\* C20: lifecycle phases are never revisited: once the session has stopped
\* (start() has run and is_running is False again), no step sets is_running
\* back to True, and no stage task that has finished is started again.
C20_NeverRestarted ==
    [][ /\ ~(start_pc # "new" /\ ~is_running /\ is_running')
        /\ ~(recv_pc = "done" /\ recv_pc' = "start") ]_vars

\* C21: the active-call count that /health, /ready, /api/calls/active and
\* /metrics report equals the number of live sessions: after any sequence
\* of webhook- and stream-driven call starts and ends,
\* get_stats()['active_calls'] is the number of entries in the two
\* adapters' active_calls tables.
C21_ReportedCountIsLiveSessions ==
    get_stats.active_calls =
        Cardinality(DOMAIN twilio_active) + Cardinality(DOMAIN exotel_active)

-----------------------------------------------------------------------------
(* Claims about provider resolution, context loading and failures of the
   speech services *)

\* get_provider_for_call has returned and nothing has been requested since
ProviderResolved == prov_pc = "returned" /\ ctx_pc = "new"

\* C22: provider resolution order: get_provider_for_call returns the
\* provider the business configuration names when a business id is given
\* and the fetched configuration names twilio or exotel; in every other
\* case (no business id, no answer from the backend, no voiceProvider, a
\* name that is no provider, a body that is no object) it returns the
\* region default of the caller number; it always returns TWILIO or EXOTEL.
C22_ResolutionOrder ==
    ProviderResolved =>
        /\ resolved_provider \in {TWILIO, EXOTEL}
        /\ IF business_id # NoBusiness /\ result \in {"twilio", "exotel"}
             THEN resolved_provider = result
             ELSE resolved_provider = RegionDefault(phone_number)

\* the business configuration names Exotel for a caller whose region
\* default is Twilio
C22_Witness ==
    /\ ProviderResolved
    /\ business_id # NoBusiness
    /\ result = "exotel"
    /\ resolved_provider = EXOTEL
    /\ RegionDefault(phone_number) = TWILIO

\* the number as dialled: separators dropped, then the "+" of the
\* international form, if it leads
NationalDigits(number) ==
    LET dialled == SelectSeq(number, LAMBDA x : x \notin {" ", "-"})
    IN  IF dialled # <<>> /\ Head(dialled) = "+" THEN Tail(dialled) ELSE dialled

\* the number's country code is 91; a number written without "+" that
\* begins with 91 counts, as it does for the router
CountryCode91(number) ==
    LET digits == NationalDigits(number)
    IN  Len(digits) >= 2 /\ digits[1] = "9" /\ digits[2] = "1"

\* C23: region default by country code: with no business override a caller
\* number is routed to Exotel exactly when its country code is 91, and to
\* Twilio for every other number, the empty one included.
C23_RegionDefaultByCountryCode ==
    (ProviderResolved /\ business_id = NoBusiness) =>
        /\ CountryCode91(phone_number) => resolved_provider = EXOTEL
        /\ ~CountryCode91(phone_number) => resolved_provider = TWILIO

\* +9-1 4: an Indian number written with a separator inside the country code
C23_Witness ==
    /\ ProviderResolved /\ business_id = NoBusiness
    /\ phone_number = <<"+", "9", "-", "1">>
    /\ resolved_provider = EXOTEL

\* every attempt of the context request has failed
AllAttemptsFailed == attempt = retry_attempts /\ result = None

\* C24: the context fetch never blocks activation: when every attempt of
\* the request has failed, get_full_context returns the default context,
\* whose welcome message is "Hello! How can I help you today?", start()
\* goes on as soon as the last attempt is over, and the conversation is
\* built with that default.
C24_ContextFetchFallsBack ==
    /\ (ctx_pc = "fetch" /\ req_for = "done")
          => ENABLED (ContextLoaded /\ UNCHANGED <<rvars, svars, scenv>>)
    /\ (ctx_pc = "conversation" /\ AllAttemptsFailed)
          => /\ context = "default"
             /\ WelcomeMessage(context) = DEFAULT_WELCOME

\* three failed attempts, and the conversation built on the default context
C24_Witness ==
    /\ ctx_pc = "conversation"
    /\ AllAttemptsFailed
    /\ context = "default"

\* C25: speech-to-text failure is not fatal: a poll whose utterance cannot
\* be transcribed (transcribe raises, or the text is empty) forwards
\* nothing to the response stage and changes neither the history nor the
\* synthesis queue, leaves is_running as it is, and the loop of a running
\* session sleeps for its next poll.
C25_TranscriptionFailureNotFatal ==
    [][ ((\E stt \in {"silence", "error"} : TransPoll(stt)) /\ utterances' # utterances)
          => /\ UNCHANGED <<msg_tasks, conversation_history, recent_transcriptions,
                            synthesis_queue, enqueued, is_running>>
             /\ is_running => (trans_pc' = "sleep" /\ trans_wake' = now + poll_sleep) ]_vars

\* the first utterance could not be transcribed, the second one was, and
\* its text went on to the response stage
C25_Witness ==
    /\ Len(utterances) = 2
    /\ ~InHistory(Turn("user", 1))
    /\ InHistory(Turn("user", 2))
    /\ is_running

\* C26: a synthesis that raises or returns no audio sends nothing to the
\* transport for that text (the loop never enters _stream_audio), leaves
\* is_running as it was, and a loop that is still running goes on to the next
\* text: it takes the head of the queue if there is one and waits in get()
\* otherwise
C26_TtsFailureNotFatal ==
    [][ SynthSynthesized(FALSE)
          => /\ synth_pc' # "stream"
             /\ UNCHANGED <<is_running, enqueued>>
             /\ is_running =>
                  IF synthesis_queue # <<>>
                    THEN /\ synth_pc' = "tts"
                         /\ synthesis_queue' = Tail(synthesis_queue)
                    ELSE /\ synth_pc' = "get"
                         /\ UNCHANGED synthesis_queue ]_vars

\* a synthesis failed, the session is still running and the loop is already
\* synthesizing the text queued after the failed one
C26_Witness ==
    /\ audio_data = None
    /\ synth_pc = "tts"
    /\ Len(enqueued) - Len(synthesis_queue) >= 2
    /\ is_running

\* a string of base64 as RFC 4648 defines it: whole quads of characters of
\* the alphabet, the last one ending in at most two pads
ValidBase64(s) ==
    /\ Len(s) % 4 = 0
    /\ \A i \in 1..Len(s) :
          \/ s[i] \in Base64Alphabet
          \/ s[i] = BASE64_PAD /\ i > Len(s) - 2 /\ \A j \in i..Len(s) : s[j] = BASE64_PAD

\* the stream handler t takes a text that is no JSON, or a media event whose
\* payload is no base64
MalformedFrame(t) ==
    \/ ExotelStreamText(t, "not_json")
    \/ \E payload \in Payloads : ~ValidBase64(payload) /\ ExotelStreamMedia(t, payload)

\* C27: a malformed frame is dropped without ending the call: a websocket
\* message that is no valid JSON, or a media payload that is no valid base64,
\* leaves the registry entry of the call and the queue of its input device as
\* they were, and the stream handler goes on receiving
C27_MalformedFramesDropped ==
    [][ \A t \in tasks :
          MalformedFrame(t) => (UNCHANGED exotel_active /\ t \in tasks') ]_vars

-----------------------------------------------------------------------------
(* Claims about outbound audio, malformed frames and separate calls *)

\* C28: egress never bursts faster than playback: in _stream_audio and in
\* ExotelOutputDevice.play alike the pause after a chunk is at least the time
\* the chunk takes to play, pause [ms] / 1000 >= bytes of the chunk / bytes
\* per second of its format
C28_PauseCoversPlayback ==
    [][ OutChunkSent(TRUE)
          => (out_clock' - out_clock) * BytesPerSecond(out_path)
                >= ChunkLen(out_audio, out_i, ChunkSize(out_path)) * 1000 ]_vars

\* a step that ends call a or fails in one of its handlers: a status
\* notification for a, the router's handle_call_end(a), the resumption of an
\* end of a, the stream of a closing or raising, a start of a failing
EndsOrFails(a) ==
    \/ \E status \in TwilioStatuses, signed \in BOOLEAN : TwilioStatusRoute(a, status, signed)
    \/ \E signed \in BOOLEAN : ExotelStatusRoute(a, signed)
    \/ RouterHandleCallEnd(a)
    \/ \E t \in tasks :
          /\ t.call = a
          /\ \/ TwilioCallEndResume(t)
             \/ \E terminated \in BOOLEAN : ExotelEndCallResume(t, terminated)
             \/ ExotelStreamClose(t)
             \/ ExotelStreamText(t, "not_object")
             \/ TwilioInboundContext(t, "malformed")
             \/ ExotelStartContext(t, "malformed")
             \/ ExotelStartStarted(t, FALSE)

\* the step leaves call b as it was: its entry in each registry, and the
\* conversation and the devices its entry names (neither terminated, stopped
\* nor reported)
LeftAlone(b) ==
    /\ (b \in DOMAIN router_active) = (b \in DOMAIN router_active')
    /\ (b \in DOMAIN twilio_active) = (b \in DOMAIN twilio_active')
    /\ (b \in DOMAIN exotel_active) = (b \in DOMAIN exotel_active')
    /\ b \in DOMAIN router_active => router_active'[b] = router_active[b]
    /\ b \in DOMAIN twilio_active =>
          /\ twilio_active'[b] = twilio_active[b]
          /\ cost_reports'[twilio_active[b].session] = cost_reports[twilio_active[b].session]
    /\ b \in DOMAIN exotel_active =>
          /\ exotel_active'[b] = exotel_active[b]
          /\ terminations'[exotel_active[b].session] = terminations[exotel_active[b].session]
          /\ cost_reports'[exotel_active[b].session] = cost_reports[exotel_active[b].session]

Synthesized(n) == arrived[n].call_sid.src # "provider"

\* the table arrival n is stored in
TableOf(n) == IF arrived[n].adapter = "stream" THEN stream_calls ELSE voice_calls

\* C30: call ids are unique: two distinct calls that arrive without a
\* provider-assigned id get distinct synthesized ids, also when both start
\* within one clock second, and the registry entry either of them stored is
\* still its own
C30_SynthesizedIdsUnique ==
    \A i, j \in 1..Len(arrived) :
        (i # j /\ Synthesized(i) /\ Synthesized(j)) =>
            /\ arrived[i].call_sid # arrived[j].call_sid
            /\ arrived[i].pc = "stored" => TableOf(i)[arrived[i].call_sid] = i

-----------------------------------------------------------------------------
(* Claims about the hand-off of audio, the codec, the backend client and    *)
(* the end of calls                                                          *)

\* the frames of the buffers in seq, in order
RECURSIVE Concat(_)
Concat(seq) == IF seq = <<>> THEN <<>> ELSE Head(seq) \o Concat(Tail(seq))

\* C31: no audio is lost in the hand-off between the receive loop and the
\* transcription loop: the utterances handed to transcription so far, in
\* order, followed by the current speaking_buffer are exactly the frames
\* received so far, in arrival order, none dropped, duplicated or reordered
C31_NoFrameLost ==
    Concat(utterances) \o speaking_buffer = [i \in 1..audio_buffer |-> i]

\* an utterance was handed over and frames that came after it are buffered
C31_Witness ==
    /\ Len(utterances) = 1
    /\ speaking_buffer # <<>>
    /\ Head(speaking_buffer) = Len(utterances[1]) + 1
    /\ is_running

\* C32: codec round trip: for every code b in 0..255, _pcm_to_mulaw of the
\* sample _mulaw_to_pcm(b) is b or a code one quantization step from b
C32_RoundTrip ==
    codec_pc = "round_trip" => Abs(mulaw_out - mulaw_in) <= 1

\* C33: decoding is total over the code space: for every byte 0..255
\* _mulaw_to_pcm returns a sample, without error, in -32768..32767
C33_DecodeTotal ==
    /\ codec_pc # "raised"
    /\ codec_pc = "decoded" => sample \in Int16

\* the fields of the complement of a code
SignBit(code) == (255 - code) \div 128
ChordField(code) == ((255 - code) % 128) \div 16
StepField(code) == (255 - code) % 16

\* C34: encoding is a clipped sign/chord/step quantizer: the complement of
\* the byte emitted for a sample s has its sign bit set iff s < 0 and a chord
\* in 0..6; every s with |s| >= 0x1FFF - 33 gets the largest chord and step;
\* and for 0 <= s the (chord, step) pair of s is lexicographically at most
\* that of s + 1, hence at most that of every t >= s
C34_ClippedQuantizer ==
    codec_pc = "encoded" =>
        /\ mulaw_out \in Bytes
        /\ SignBit(mulaw_out) = 1 <=> sample < 0
        /\ ChordField(mulaw_out) \in 0..6
        /\ Abs(sample) >= MULAW_MAX - MULAW_BIAS
              => ChordField(mulaw_out) = 6 /\ StepField(mulaw_out) = 15
        /\ (sample >= 0 /\ sample + 1 \in Int16) =>
              LET next == pcm_to_mulaw(sample + 1)
              IN  \/ ChordField(mulaw_out) < ChordField(next)
                  \/ /\ ChordField(mulaw_out) = ChordField(next)
                     /\ StepField(mulaw_out) <= StepField(next)

\* a negative sample beyond the clip was encoded: sign set, largest chord and step
C34_Witness ==
    /\ codec_pc = "encoded"
    /\ sample = -32768
    /\ mulaw_out = 255 - (128 + 6 * 16 + 15)

\* whether one of the HTTP requests made so far came back with status 200
SomeAttempt200 == \E i \in 1..Len(rq_responses) : rq_responses[i] \in Status200

\* C35: _request makes at most retry_attempts HTTP attempts, makes none after
\* the first one that came back with status 200 and returns the body of that
\* one, returns None exactly when no attempt came back with 200, and never
\* raises, whatever the failures are (timeout, error status, unsupported
\* method, malformed body).
C35_RequestContract ==
    /\ rq_pc # "raised"
    /\ Len(rq_responses) <= retry_attempts
    /\ \A i \in 1..Len(rq_responses) - 1 : rq_responses[i] \notin Status200
    /\ rq_pc = "returned" =>
          /\ rq_result = None <=> ~SomeAttempt200
          /\ rq_result # None => rq_result = Body

\* C36: _request never sleeps after its final attempt: whatever the failure of
\* the attempt numbered retry_attempts - 1 is, no asyncio.sleep follows it.
C36_NoSleepAfterFinalAttempt ==
    rq_pc = "sleep" => rq_attempt < retry_attempts - 1

\* C37: every call id that start_conversation registered for a stream handler
\* has been ended and is absent from active_calls when the handler exits,
\* also after two 'start' events with different call ids on one websocket.
\* Here only stream handlers register calls, so once every handler has
\* exited no call id is left in ExotelAdapter.active_calls.
C37_StreamHandlerEndsItsCalls ==
    tasks = {} => exotel_active = EmptyDict

\* C38: when stop() is called while start() awaits the context or the
\* conversation record, so before the conversation exists, then once stop()
\* and start() have both returned no StreamingConversation is started and
\* left unterminated.
C38_StopDuringStartLeavesNothingRunning ==
    (/\ Len(ns_stop_at) = 1
     /\ ns_stop_at[1] \in {"ctx", "record"}
     /\ ns_stop_pc = "returned"
     /\ ns_pc \in {"returned", "raised"}) => ~(ns_started /\ ~ns_terminated)

\* C39: a Twilio status notification of failed, busy, no-answer or canceled
\* removes the entry of the call and invokes neither report_call_cost nor
\* save_transcript; a 'completed' notification for a registered call invokes
\* report_call_cost, and when the report has answered or raised the entry of
\* the call is removed.
C39_TwilioTerminalStatus ==
    [][ /\ \A c \in CallIds :
              TwilioStatusFailed(c) =>
                  /\ c \notin DOMAIN twilio_active'
                  /\ cost_reports' = cost_reports
                  /\ tasks' = tasks
        /\ \A c \in CallIds :
              (TwilioCallEnd(c) /\ c \in DOMAIN twilio_active) =>
                  /\ cost_reports' = Bump(cost_reports, twilio_active[c].session)
                  /\ \E t \in tasks' \ tasks :
                        t.kind = "tw_end" /\ t.call = c /\ t.pc = "report"
        /\ \A t \in tasks :
              (t.via = "webhook" /\ TwilioCallEndResume(t)) =>
                  /\ t.call \notin DOMAIN twilio_active'
                  /\ cost_reports' = cost_reports ]_vars

\* a failed notification for a registered call took the entry away, and no
\* cost was ever reported
C39_Witness ==
    /\ last.op = "tw_status_failed" /\ last.registered
    /\ last.call \notin DOMAIN twilio_active
    /\ \A s \in Sessions : cost_reports[s] = 0

\* C40: when the shutdown phase of the lifespan completes, the router's
\* active_calls and the active_calls of both adapters are empty, whatever mix
\* of Twilio and Exotel calls was active and even if ending a call raised.
C40_ShutdownEmptiesTables ==
    shutdown_pc = "complete" =>
        /\ router_active = EmptyDict
        /\ twilio_active = EmptyDict
        /\ exotel_active = EmptyDict

====
